---- MODULE Spec2Model ----
(***************************************************************************)
(* Model of the Janus NoSIP plugin (plugins/janus_nosip.c): the session    *)
(* store and its two-phase destruction, the single request-handler thread, *)
(* the per-session RTP/RTCP relay threads, the watchdog, and the SDP/SRTP  *)
(* helpers the generate and process requests use.                          *)
(*                                                                         *)
(* Threads are interleaved at the points where the source takes or drops   *)
(* sessions_mutex, blocks (queue pop, poll) or moves from one stage of a   *)
(* request to the next.  Time is counted in seconds.                       *)
(***************************************************************************)
EXTENDS Integers, Sequences, FiniteSets, TLC

\* ------------------------------------------------------------------ bounds
MaxRequests == 2        \* handle_message calls in one behaviour
MaxTime == 6            \* the monotonic clock stops here
HangSat == 1            \* the hangingup counter saturates here (only ==0 is ever tested)
PortSpan == 2           \* rtp_range_max - rtp_range_min (even, as for the default 10000-60000)

\* ------------------------------------------------------- program constants
JANUS_NOSIP_ERROR_INVALID_REQUEST == 442
JANUS_NOSIP_ERROR_MISSING_ELEMENT == 443
JANUS_NOSIP_ERROR_INVALID_ELEMENT == 444
JANUS_NOSIP_ERROR_MISSING_SDP == 446
JANUS_NOSIP_ERROR_INVALID_SDP == 447
JANUS_NOSIP_ERROR_IO_ERROR == 448
JANUS_NOSIP_ERROR_RECORDING_ERROR == 449
JANUS_NOSIP_ERROR_TOO_STRICT == 450
GraceSeconds == 5       \* now - destroyed >= 5*G_USEC_PER_SEC
SuiteOut == 80          \* audio_srtp_suite_out = 80

Handles == {"h1"}
Kinds == {"audio", "video"}
NoIp == "NULL"
NumericIps == {"10.0.0.1", "10.0.0.2"}

\* the port range: rtp_range_min as initialised, rtp_range_max as the
\* rtp_port_range setting of the configuration file leaves it
rtp_range_min == 10000
rtp_range_max == rtp_range_min + PortSpan

\* --------------------------------------------------------------- SDP input
\* An m-line as janus_sdp_parse delivers it: type, port, proto, direction,
\* media-level c= address and the a=crypto attributes.  A crypto attribute is
\* [parsed |-> sscanf returned 3, suite |-> the %2d field, keyok |-> the
\* base64 text decodes to at least SRTP_MASTER_LENGTH bytes].
MLine(t, p, proto, dir, crypto) ==
    [type |-> t, port |-> p, proto |-> proto, direction |-> dir,
     c_addr |-> NoIp, crypto |-> crypto]

Crypto80 == [parsed |-> TRUE, suite |-> 80, keyok |-> TRUE]
Crypto32 == [parsed |-> TRUE, suite |-> 32, keyok |-> TRUE]
CryptoShort == [parsed |-> TRUE, suite |-> 80, keyok |-> FALSE]
CryptoJunk == [parsed |-> FALSE, suite |-> 0, keyok |-> FALSE]

SdpText(name, parses, app, c, ms) ==
    [name |-> name, parses |-> parses, app |-> app, c_addr |-> c, m_lines |-> ms]

\* The SDP texts requests may carry.
SdpInputs ==
    { SdpText("a_plain", TRUE, FALSE, "10.0.0.1",
              << MLine("audio", 40000, "RTP/AVP", "sendrecv", << >>) >>),
      SdpText("a_srtp", TRUE, FALSE, "10.0.0.1",
              << MLine("audio", 40000, "RTP/SAVP", "sendrecv", << Crypto80 >>) >>),
      SdpText("a_savp_nokey", TRUE, FALSE, "10.0.0.1",
              << MLine("audio", 40000, "RTP/SAVP", "sendrecv", << CryptoJunk >>) >>),
      SdpText("a_moved", TRUE, FALSE, "10.0.0.2",
              << MLine("audio", 40100, "RTP/AVP", "sendrecv", << >>) >>),
      SdpText("av_srtp", TRUE, FALSE, "10.0.0.1",
              << MLine("audio", 40000, "RTP/SAVP", "sendonly", << Crypto32, Crypto80 >>),
                 MLine("video", 40002, "RTP/SAVP", "sendrecv", << CryptoShort >>) >>),
      SdpText("a_zero", TRUE, FALSE, "10.0.0.1",
              << MLine("audio", 0, "RTP/AVP", "sendrecv", << >>) >>),
      SdpText("no_addr", TRUE, FALSE, NoIp,
              << MLine("video", 40002, "RTP/AVP", "sendrecv", << >>) >>),
      SdpText("garbage", FALSE, FALSE, NoIp, << >>),
      SdpText("datachannel", TRUE, TRUE, "10.0.0.1",
              << MLine("audio", 40000, "RTP/AVP", "sendrecv", << >>) >>) }

NoSdp == SdpText("none", FALSE, FALSE, NoIp, << >>)

\* ----------------------------------------------------------- session state
AllKinds(v) == [k \in Kinds |-> v]

\* janus_nosip_create_session: the freshly allocated session
NewSession ==
    [ destroyed |-> 0, hangingup |-> 0, sdp |-> "NULL",
      remote_ip |-> NoIp, ready |-> FALSE,
      require_srtp |-> FALSE, has_srtp_local |-> FALSE, has_srtp_remote |-> FALSE,
      has |-> AllKinds(FALSE),
      rtp_fd |-> AllKinds(-1), rtcp_fd |-> AllKinds(-1),
      local_rtp_port |-> AllKinds(0), local_rtcp_port |-> AllKinds(0),
      remote_rtp_port |-> AllKinds(0), remote_rtcp_port |-> AllKinds(0),
      srtp_in |-> AllKinds(FALSE), srtp_out |-> AllKinds(FALSE),
      srtp_suite_in |-> AllKinds(0), srtp_suite_out |-> AllKinds(0),
      send |-> AllKinds(TRUE),
      pipefd |-> -1, pipe_pending |-> 0,
      conn_rtp |-> AllKinds(<<NoIp, 0>>), conn_rtcp |-> AllKinds(<<NoIp, 0>>),
      updated |-> FALSE ]

\* ------------------------------------------------------------ SRTP helpers
\* a cleanup that leaves the inbound suite fields as they are
SrtpCleanup_KeepsSuiteIn(m) ==
    [m EXCEPT !.require_srtp = FALSE, !.has_srtp_local = FALSE,
              !.has_srtp_remote = FALSE,
              !.srtp_out = AllKinds(FALSE), !.srtp_suite_out = AllKinds(0),
              !.srtp_in = AllKinds(FALSE)]

\* janus_nosip_srtp_cleanup.  srtp_out[k] and srtp_in[k] stand for the context
\* together with its policy key: srtp_set_local and srtp_set_remote store both
\* or neither, and the cleanup frees and clears both.
SrtpCleanup(m) ==
    [m EXCEPT !.require_srtp = FALSE, !.has_srtp_local = FALSE,
              !.has_srtp_remote = FALSE,
              !.srtp_out = AllKinds(FALSE), !.srtp_suite_out = AllKinds(0),
              !.srtp_in = AllKinds(FALSE), !.srtp_suite_in = AllKinds(0)]

\* janus_nosip_srtp_set_remote: the inbound context is created unless the key
\* decodes to fewer than SRTP_MASTER_LENGTH bytes
SrtpSetRemote(m, k, c) ==
    IF c.keyok THEN [m EXCEPT !.srtp_in[k] = TRUE] ELSE m

\* janus_nosip_srtp_set_local: a fresh random key, the outbound context
SrtpSetLocal(m, k) == [m EXCEPT !.srtp_out[k] = TRUE]

\* ------------------------------------------------------------- SDP ingest
\* janus_nosip_sdp_process, the a=crypto attributes of one m-line: the first
\* line that sscanf accepts while no suite is recorded for the kind installs
\* the remote context and sets has_srtp_remote
RECURSIVE ProcessCrypto(_, _, _)
ProcessCrypto(m, k, attrs) ==
    IF attrs = << >> THEN m
    ELSE LET a == Head(attrs)
             m1 == IF a.parsed /\ m.srtp_suite_in[k] = 0
                   THEN [SrtpSetRemote([m EXCEPT !.srtp_suite_in[k] = a.suite], k, a)
                           EXCEPT !.has_srtp_remote = TRUE]
                   ELSE m
         IN ProcessCrypto(m1, k, Tail(attrs))

\* janus_nosip_sdp_process, the loop over the m-lines
RECURSIVE ProcessLines(_, _, _, _, _)
ProcessLines(m, lines, answer, update, changed) ==
    IF lines = << >> THEN [m |-> m, changed |-> changed]
    ELSE LET l == Head(lines)
             k == l.type
             m1 == [m EXCEPT !.require_srtp = @ \/ (l.proto = "RTP/SAVP")]
         IN IF k \notin Kinds
            THEN ProcessLines(m1, Tail(lines), answer, update, changed)
            ELSE LET m2 == IF l.port # 0
                           THEN [m1 EXCEPT !.has[k] = TRUE,
                                           !.remote_rtp_port[k] = l.port,
                                           !.remote_rtcp_port[k] = l.port + 1,
                                           !.send[k] = l.direction \notin {"sendonly", "inactive"}]
                           ELSE [m1 EXCEPT !.send[k] = FALSE]
                     ch2 == changed \/ (l.port # 0 /\ l.port # m1.remote_rtp_port[k])
                     m3 == IF l.c_addr # NoIp THEN [m2 EXCEPT !.remote_ip = l.c_addr] ELSE m2
                     ch3 == ch2 \/ (l.c_addr # NoIp /\ update /\ l.c_addr # m2.remote_ip)
                     m4 == IF update THEN m3 ELSE ProcessCrypto(m3, k, l.crypto)
                 IN ProcessLines(m4, Tail(lines), answer, update, ch3)

\* a write of one int to pipefd[1], when the pipe exists; PipeCap is the
\* number of unread writes the model tells apart
PipeCap == 1
PipeWrite(m) ==
    IF m.pipefd > 0
    THEN [m EXCEPT !.pipe_pending = IF @ < PipeCap THEN @ + 1 ELSE @]
    ELSE m

\* janus_nosip_sdp_process: [m |-> the session afterwards, changed |-> *changed]
SdpProcess(m, sdp, answer, update) ==
    LET ch0 == sdp.c_addr # NoIp /\ update /\ sdp.c_addr # m.remote_ip
        m0 == IF sdp.c_addr # NoIp THEN [m EXCEPT !.remote_ip = sdp.c_addr] ELSE m
        r == ProcessLines(m0, sdp.m_lines, answer, update, ch0)
    IN IF update /\ r.changed
       THEN [m |-> PipeWrite([r.m EXCEPT !.updated = TRUE]), changed |-> TRUE]
       ELSE r

\* ------------------------------------------------------------ SDP rewrite
\* janus_nosip_sdp_manipulate: every m-line gets the profile, the local RTP
\* port of its kind and, with has_srtp_local, a fresh outbound context and one
\* more crypto attribute.  Both branches write audio_srtp_suite_out.
\* [m |-> the session afterwards, out |-> the rewritten m-lines]
RECURSIVE ManipulateLines(_, _, _)
ManipulateLines(m, lines, out) ==
    IF lines = << >> THEN [m |-> m, out |-> out]
    ELSE LET l == Head(lines)
             k == l.type
             proto == IF m.require_srtp THEN "RTP/SAVP" ELSE "RTP/AVP"
             m1 == IF k \in Kinds /\ m.has_srtp_local
                   THEN SrtpSetLocal([m EXCEPT !.srtp_suite_out["audio"] = SuiteOut], k)
                   ELSE m
             o == [type |-> k, proto |-> proto,
                   port |-> IF k \in Kinds THEN m.local_rtp_port[k] ELSE l.port,
                   ncrypto |-> Len(l.crypto) + IF k \in Kinds /\ m.has_srtp_local THEN 1 ELSE 0]
         IN ManipulateLines(m1, Tail(lines), Append(out, o))

SdpManipulate(m, sdp, answer) == ManipulateLines(m, sdp.m_lines, << >>)

\* --------------------------------------------------------- port allocation
\* g_random_int_range(rtp_range_min, rtp_range_max), made even
EvenPort(r) == IF r % 2 = 1 THEN r + 1 ELSE r
CandidatePorts == { EvenPort(r) : r \in rtp_range_min .. (rtp_range_max - 1) }

\* How the bind loop of one kind ends: a pair bound at `port`, or the attempts
\* used up with the last failure on the RTP bind (the RTCP socket stays open)
\* or on the RTCP bind (both closed).  The return on a failed socket() is
\* followed in AllocSpec, where the loop is taken iteration by iteration.
AllocOutcomes ==
    { [res |-> "ok", port |-> p] : p \in CandidatePorts }
    \cup { [res |-> "rtp_exhausted", port |-> 0], [res |-> "rtcp_exhausted", port |-> 0] }
AllocEnv ==
    { e \in [Kinds -> AllocOutcomes] :
        (e["audio"].res = "ok" /\ e["video"].res = "ok")
            => e["audio"].port # e["video"].port }

\* the reset at the head of janus_nosip_allocate_local_ports
AllocReset(m) ==
    [m EXCEPT !.rtp_fd = AllKinds(-1), !.rtcp_fd = AllKinds(-1),
              !.local_rtp_port = AllKinds(0), !.local_rtcp_port = AllKinds(0),
              !.conn_rtp = AllKinds(<<NoIp, 0>>), !.conn_rtcp = AllKinds(<<NoIp, 0>>),
              !.pipefd = -1, !.pipe_pending = 0]

\* one kind's bind loop
AllocKind(m, k, o) ==
    IF ~m.has[k] THEN [ret |-> 0, m |-> m]
    ELSE IF o.res = "ok"
    THEN [ret |-> 0,
          m |-> [m EXCEPT !.rtp_fd[k] = 1, !.rtcp_fd[k] = 1,
                          !.local_rtp_port[k] = o.port,
                          !.local_rtcp_port[k] = o.port + 1]]
    ELSE [ret |-> -1,
          m |-> [m EXCEPT !.rtcp_fd[k] = IF o.res = "rtp_exhausted" THEN 1 ELSE -1]]

\* janus_nosip_allocate_local_ports: audio, then video, then pipe()
AllocateLocalPorts(m, pipeid, env) ==
    LET a == AllocKind(AllocReset(m), "audio", env["audio"])
        v == AllocKind(a.m, "video", env["video"])
    IN IF a.ret < 0 THEN a
       ELSE IF v.ret < 0 THEN v
       ELSE [ret |-> 0, m |-> [v.m EXCEPT !.pipefd = pipeid]]

\* ------------------------------------------------------------------ state
VARIABLES
    created,        \* handles the gateway has called create_session for
    sessions,       \* the keys of the `sessions` hash table
    old_sessions,   \* the `old_sessions` list
    freed,          \* sessions whose storage the watchdog has g_free'd
    sess,           \* handle->plugin_handle: the janus_nosip_session of a handle
    messages,       \* the `messages` async queue
    nextTx,         \* messages pushed so far, plus one
    hpc,            \* where the handler thread is
    hmsg,           \* the message the handler thread holds
    relays,         \* per session, the relay threads started for it
    now,            \* janus_get_monotonic_time()
    pushed,         \* number of gateway->push_event calls
    lastReply,      \* the push_event made for the message last taken off the queue
    uaf,            \* a thread has dereferenced a freed session
    alloc,          \* a call of janus_nosip_allocate_local_ports followed step by step
    pkt,            \* the packet the relay thread or an ingress callback is handling
    recorders,      \* per session, the recorders arc, arc_peer, vrc and vrc_peer
    rec_mutex       \* per session, where each context stands with rec_mutex

vars == << created, sessions, old_sessions, freed, sess, messages, nextTx,
           hpc, hmsg, relays, now, pushed, lastReply, uaf, alloc, pkt,
           recorders, rec_mutex >>

NoMsg == [handle |-> "none", transaction |-> 0, request |-> "none",
          type |-> "none", srtp |-> "absent", sdp |-> NoSdp]
NoReply == [handle |-> "none", transaction |-> 0, code |-> 0, event |-> "none",
            type |-> "none", out |-> << >>, srtp |-> "none"]
\* no call of janus_nosip_allocate_local_ports is being followed
NoAlloc == [pc |-> "none", kind |-> "audio", attempts |-> 0, ret |-> 0]

\* no packet is being handled and none has been
NoPkt == [src |-> "none", kind |-> "audio", rtcp |-> FALSE, res |-> "none",
          ctx |-> "none", rec |-> "none", out |-> "none"]
\* the recorder pointers of a session: the user's audio and video (arc, vrc)
\* and the peer's (arc_peer, vrc_peer); "null" is NULL, "open" a recorder
RecorderSlots == {"arc", "arc_peer", "vrc", "vrc_peer"}
NoRecorders == [s \in RecorderSlots |-> "null"]
\* the contexts that take rec_mutex: the handler thread inside a recording
\* request and a caller of janus_nosip_hangup_media_internal; each is "out",
\* "waits" in janus_mutex_lock or "holds" the mutex
RecContexts == {"handler", "hangup"}
NoContexts == [c \in RecContexts |-> "out"]

\* the state janus_nosip_init leaves
Init ==
    /\ created = {}
    /\ sessions = {}
    /\ old_sessions = << >>
    /\ freed = {}
    /\ sess = [h \in Handles |-> NewSession]
    /\ messages = << >>
    /\ nextTx = 1
    /\ hpc = "idle"
    /\ hmsg = NoMsg
    /\ relays = [h \in Handles |-> << >>]
    /\ now = 1
    /\ pushed = 0
    /\ lastReply = NoReply
    /\ uaf = FALSE
    /\ alloc = NoAlloc
    /\ pkt = NoPkt
    /\ recorders = [h \in Handles |-> NoRecorders]
    /\ rec_mutex = [h \in Handles |-> NoContexts]

\* janus_nosip_lookup_session, under sessions_mutex
LookupSession(h) == h \in sessions

\* -------------------------------------------------------- gateway callbacks
\* janus_nosip_create_session
CreateSession(h) ==
    /\ h \notin created
    /\ created' = created \cup {h}
    /\ sess' = [sess EXCEPT ![h] = NewSession]
    /\ sessions' = sessions \cup {h}
    /\ UNCHANGED << rec_mutex, alloc, pkt, recorders, old_sessions, freed, messages, nextTx, hpc, hmsg, relays, now,
                    pushed, lastReply, uaf >>

\* a hangup in which every caller runs the body, not the first alone
HangupMediaInternal_EveryCaller(m) ==
    PipeWrite([m EXCEPT !.hangingup = IF @ < HangSat THEN @ + 1 ELSE @])

\* janus_nosip_hangup_media_internal past its lookup and destroyed checks:
\* the first caller since hangingup was last reset wakes the relay thread
HangupMediaInternal(m) ==
    IF m.hangingup # 0
    THEN [m EXCEPT !.hangingup = IF @ < HangSat THEN @ + 1 ELSE @]
    ELSE PipeWrite([m EXCEPT !.hangingup = 1])

\* the recorder a thread holds a pointer to is closed and freed under it:
\* p is the packet in hand, slots the recorders being freed
SlotOf(src, k) ==
    IF src = "relay" THEN (IF k = "video" THEN "vrc_peer" ELSE "arc_peer")
    ELSE (IF k = "video" THEN "vrc" ELSE "arc")
RecorderFreed(p, slots) ==
    IF p.src # "none" /\ p.out = "none" /\ p.rec = "open" /\ SlotOf(p.src, p.kind) \in slots
    THEN [p EXCEPT !.rec = "freed"]
    ELSE p

\* janus_nosip_hangup_media_internal, "Get rid of the recorders": the first
\* caller closes and frees the four recorders under rec_mutex
HangupRecorders(h) ==
    IF sess[h].hangingup = 0
    THEN /\ recorders' = [recorders EXCEPT ![h] = NoRecorders]
         /\ pkt' = RecorderFreed(pkt, RecorderSlots)
    ELSE UNCHANGED << pkt, recorders >>

\* janus_nosip_hangup_media
HangupMedia(h) ==
    /\ h \in created
    /\ LookupSession(h)
    /\ sess[h].destroyed = 0
    /\ sess' = [sess EXCEPT ![h] = HangupMediaInternal(@)]
    /\ HangupRecorders(h)
    /\ UNCHANGED << rec_mutex, alloc, created, sessions, old_sessions, freed, messages, nextTx, hpc,
                    hmsg, relays, now, pushed, lastReply, uaf >>

\* janus_nosip_setup_media
SetupMedia(h) ==
    /\ h \in created
    /\ LookupSession(h)
    /\ sess[h].destroyed = 0
    /\ sess' = [sess EXCEPT ![h].hangingup = 0]
    /\ UNCHANGED << rec_mutex, alloc, pkt, recorders, created, sessions, old_sessions, freed, messages, nextTx, hpc,
                    hmsg, relays, now, pushed, lastReply, uaf >>

\* a destroy_session that leaves the session in the hash table
DestroySession_StaysInTable(h) ==
    /\ h \in created
    /\ LookupSession(h)
    /\ IF sess[h].destroyed = 0
       THEN /\ sess' = [sess EXCEPT ![h] =
                          [HangupMediaInternal(@) EXCEPT !.destroyed = now]]
            /\ old_sessions' = Append(old_sessions, h)
            /\ UNCHANGED sessions
       ELSE UNCHANGED << sess, sessions, old_sessions >>
    /\ UNCHANGED << rec_mutex, alloc, pkt, recorders, created, freed, messages, nextTx, hpc, hmsg, relays, now,
                    pushed, lastReply, uaf >>

\* janus_nosip_destroy_session, all of it under sessions_mutex
DestroySession(h) ==
    /\ h \in created
    /\ LookupSession(h)
    /\ IF sess[h].destroyed = 0
       THEN /\ sess' = [sess EXCEPT ![h] =
                          [HangupMediaInternal(@) EXCEPT !.destroyed = now]]
            /\ sessions' = sessions \ {h}
            /\ old_sessions' = Append(old_sessions, h)
            /\ HangupRecorders(h)
       ELSE UNCHANGED << sess, sessions, old_sessions, pkt, recorders >>
    /\ UNCHANGED << rec_mutex, alloc, created, freed, messages, nextTx, hpc, hmsg, relays, now,
                    pushed, lastReply, uaf >>

\* janus_nosip_handle_message: the message goes on the queue; its body is read
\* by the handler thread only, and is drawn there
HandleMessage(h) ==
    /\ h \in created
    /\ nextTx <= MaxRequests
    /\ messages' = Append(messages, [handle |-> h, transaction |-> nextTx])
    /\ nextTx' = nextTx + 1
    /\ UNCHANGED << rec_mutex, alloc, pkt, recorders, created, sessions, old_sessions, freed, sess, hpc, hmsg, relays,
                    now, pushed, lastReply, uaf >>

\* ----------------------------------------------------------------- watchdog
\* a test that lets a session go one second early
Expired_Early(h) == now - sess[h].destroyed >= GraceSeconds - 1

\* the test of line 393, in seconds
Expired(h) == now - sess[h].destroyed >= GraceSeconds

\* janus_nosip_watchdog, one pass over old_sessions that frees something
\* a watchdog that frees the expired sessions and leaves them on the list
Watchdog_KeepsList ==
    /\ \E i \in 1 .. Len(old_sessions) : Expired(old_sessions[i])
    /\ freed' = freed \cup { old_sessions[i] : i \in { j \in 1 .. Len(old_sessions) :
                                                        Expired(old_sessions[j]) } }
    /\ freed' # freed
    /\ UNCHANGED << rec_mutex, alloc, pkt, recorders, created, sessions, old_sessions,
                    sess, messages, nextTx, hpc, hmsg, relays, now, pushed,
                    lastReply, uaf >>

Watchdog ==
    /\ \E i \in 1 .. Len(old_sessions) : Expired(old_sessions[i])
    /\ freed' = freed \cup { old_sessions[i] : i \in { j \in 1 .. Len(old_sessions) :
                                                        Expired(old_sessions[j]) } }
    /\ old_sessions' = SelectSeq(old_sessions, LAMBDA h : ~Expired(h))
    /\ UNCHANGED << rec_mutex, alloc, pkt, recorders, created, sessions, sess, messages, nextTx, hpc, hmsg, relays,
                    now, pushed, lastReply, uaf >>

\* The monotonic clock advances.  The clock is read only to stamp `destroyed`
\* and in the watchdog's test, so it moves only while a destroyed session
\* waits for the watchdog, and between those reads it moves to the values at
\* which the test can change: one second short of the oldest entry's expiry,
\* then second by second.
Tick ==
    /\ now < MaxTime
    /\ old_sessions # << >>
    /\ LET due == sess[Head(old_sessions)].destroyed + GraceSeconds
       IN now' = IF now < due - 1 THEN due - 1 ELSE now + 1
    /\ UNCHANGED << rec_mutex, alloc, pkt, recorders, created, sessions, old_sessions, freed, sess, messages, nextTx,
                    hpc, hmsg, relays, pushed, lastReply, uaf >>

\* ----------------------------------------------------------- request bodies
\* What a message can hold: the request name, the type and SDP (of the JSEP for
\* generate, of the body for process; NoSdp when absent) and the srtp element.
Requests ==
    [request : {"generate"}, type : {"offer", "answer"},
     srtp : {"absent", "sdes_optional", "sdes_mandatory"}, sdp : SdpInputs]
    \cup [request : {"process"}, type : {"offer", "answer"}, srtp : {"absent"},
          sdp : SdpInputs]
    \cup [request : {"generate", "process"}, type : {"offer"}, srtp : {"absent"},
          sdp : {NoSdp}]
    \cup [request : {"generate", "process"}, type : {"pranswer"}, srtp : {"absent"},
          sdp : {CHOOSE d \in SdpInputs : d.name = "a_plain"}]
    \cup [request : {"generate"}, type : {"offer", "answer"}, srtp : {"sdes"},
          sdp : {CHOOSE d \in SdpInputs : d.name = "a_plain"}]
    \cup [request : {"hangup", "bogus"}, type : {"none"}, srtp : {"absent"},
          sdp : {NoSdp}]

\* strstr(msg_sdp, "m=<kind>") && !strstr(msg_sdp, "m=<kind> 0")
HasKindText(sdp, k) ==
    /\ \E i \in 1 .. Len(sdp.m_lines) : sdp.m_lines[i].type = k
    /\ ~ \E i \in 1 .. Len(sdp.m_lines) :
            sdp.m_lines[i].type = k /\ sdp.m_lines[i].port = 0

\* ---------------------------------------------------------- request handler
\* janus_nosip_handler from the request name to janus_sdp_parse: the error
\* code (0 when the request goes on) and the session as this stage leaves it
GenerateSrtpStage(m, b) ==
    IF b.srtp \notin {"absent", "sdes_optional", "sdes_mandatory"}
    THEN [code |-> JANUS_NOSIP_ERROR_INVALID_ELEMENT, m |-> m]
    ELSE IF b.type = "offer"
    THEN [code |-> 0,
          m |-> [SrtpCleanup(m) EXCEPT !.require_srtp = (b.srtp = "sdes_mandatory"),
                                       !.has_srtp_local = (b.srtp # "absent")]]
    ELSE IF m.require_srtp /\ ~m.has_srtp_remote
    THEN [code |-> JANUS_NOSIP_ERROR_TOO_STRICT, m |-> m]
    ELSE [code |-> 0, m |-> m]

ValidateRequest(m, b) ==
    IF b.request \notin {"generate", "process"}
    THEN [code |-> IF b.request = "hangup" THEN 0 ELSE JANUS_NOSIP_ERROR_INVALID_REQUEST,
          m |-> m]
    ELSE IF b.request = "process" /\ b.sdp = NoSdp
    THEN [code |-> JANUS_NOSIP_ERROR_MISSING_ELEMENT, m |-> m]
    ELSE IF b.sdp = NoSdp \/ b.type \notin {"offer", "answer"} \/ b.sdp.app
    THEN [code |-> JANUS_NOSIP_ERROR_MISSING_SDP, m |-> m]
    ELSE LET g == IF b.request = "generate" THEN GenerateSrtpStage(m, b)
                  ELSE [code |-> 0, m |-> m]
         IN IF g.code # 0 THEN g
            ELSE IF ~b.sdp.parses
            THEN [code |-> JANUS_NOSIP_ERROR_MISSING_SDP, m |-> g.m]
            ELSE g

\* the generate branch from the has_audio/has_video marks to the result
\* [code, m, out]
ApplyGenerate(m, b, pipeid, env) ==
    LET m1 == [m EXCEPT !.has = [k \in Kinds |-> @[k] \/ HasKindText(b.sdp, k)]]
        a == AllocateLocalPorts(m1, pipeid, env)
        r == SdpManipulate(a.m, b.sdp, FALSE)
    IN IF a.ret < 0
       THEN [code |-> JANUS_NOSIP_ERROR_IO_ERROR, m |-> a.m, out |-> << >>]
       ELSE [code |-> 0,
             m |-> [r.m EXCEPT !.sdp = b.sdp.name, !.hangingup = 0],
             out |-> r.out]

\* the process branch from srtp_cleanup to the result
ApplyProcess(m, b) ==
    LET m1 == IF b.type = "offer" THEN SrtpCleanup(m) ELSE m
        r == SdpProcess(m1, b.sdp, b.type # "offer", FALSE)
    IN IF ~r.m.has["audio"] /\ ~r.m.has["video"]
       THEN [code |-> JANUS_NOSIP_ERROR_INVALID_SDP, m |-> r.m, out |-> << >>]
       ELSE IF r.m.remote_ip = NoIp
       THEN [code |-> JANUS_NOSIP_ERROR_INVALID_SDP, m |-> r.m, out |-> << >>]
       ELSE [code |-> 0, m |-> [r.m EXCEPT !.sdp = b.sdp.name], out |-> << >>]

\* a start of the media that leaves `ready` alone
StartMedia_ReadyUntouched(m) == m

\* "If this is an answer, start the media"
StartMedia(m) == [m EXCEPT !.ready = TRUE]
\* a relay thread: where it is and its locals pipe_fd, server_addr and
\* have_server_ip; a thread that has returned has no locals
NewRelay == [pc |-> "start", pipe_fd |-> -1, server_addr |-> NoIp,
             have_server_ip |-> TRUE]
DoneRelay == [pc |-> "done", pipe_fd |-> -1, server_addr |-> NoIp,
              have_server_ip |-> FALSE]
SpawnRelay(rs) == Append(rs, NewRelay)

Reply(h, tx, code, event, type, out, srtp) ==
    /\ pushed' = pushed + 1
    /\ lastReply' = [handle |-> h, transaction |-> tx, code |-> code,
                     event |-> event, type |-> type, out |-> out, srtp |-> srtp]

\* a handler that takes up every message it pops
HandlerDequeue_NoLookup ==
    /\ hpc = "idle"
    /\ messages # << >>
    /\ messages' = Tail(messages)
    /\ lastReply' = NoReply
    /\ hpc' = "validate"
    /\ hmsg' = [NoMsg EXCEPT !.handle = Head(messages).handle,
                             !.transaction = Head(messages).transaction]
    /\ UNCHANGED << rec_mutex, alloc, pkt, recorders, created, sessions, old_sessions, freed, sess, nextTx, relays,
                    now, pushed, uaf >>

\* the handler pops a message, looks its session up under sessions_mutex and
\* drops the message when there is none or it is destroyed
HandlerDequeue ==
    /\ hpc = "idle"
    /\ messages # << >>
    /\ messages' = Tail(messages)
    /\ lastReply' = NoReply
    /\ LET msg == Head(messages)
       IN IF LookupSession(msg.handle) /\ sess[msg.handle].destroyed = 0
          THEN /\ hpc' = "validate"
               /\ hmsg' = [NoMsg EXCEPT !.handle = msg.handle,
                                        !.transaction = msg.transaction]
          ELSE UNCHANGED << hpc, hmsg >>
    /\ UNCHANGED << rec_mutex, alloc, pkt, recorders, created, sessions, old_sessions, freed, sess, nextTx, relays,
                    now, pushed, uaf >>

\* The watchdog may free a session a thread still points to.  What a read or
\* write of the freed storage does is not defined: the thread either goes on
\* with the contents the storage had (the steps below, which then raise `uaf`)
\* or stops there (HandlerUseAfterFree, RelayUseAfterFree).
UseAfterFree(h) == uaf \/ h \in freed

\* the handler thread stops on a session the watchdog has freed
HandlerUseAfterFree ==
    /\ hpc \in {"validate", "apply"}
    /\ hmsg.handle \in freed
    /\ uaf' = TRUE
    /\ hpc' = "idle"
    /\ hmsg' = NoMsg
    /\ UNCHANGED << rec_mutex, alloc, pkt, recorders, created, sessions, old_sessions, freed, sess, messages, nextTx,
                    relays, now, pushed, lastReply >>

\* the handler reads the message and validates it; generate settles the SRTP
\* flags here; hangup, unknown requests and errors are answered here
HandlerValidate ==
    /\ hpc = "validate"
    /\ uaf' = UseAfterFree(hmsg.handle)
    /\ \E b \in Requests :
        LET h == hmsg.handle
            v == ValidateRequest(sess[h], b)
        IN /\ sess' = [sess EXCEPT ![h] = v.m]
           /\ IF v.code = 0 /\ b.request \in {"generate", "process"}
              THEN /\ hpc' = "apply"
                   /\ hmsg' = [hmsg EXCEPT !.request = b.request, !.type = b.type,
                                           !.srtp = b.srtp, !.sdp = b.sdp]
                   /\ UNCHANGED << pushed, lastReply >>
              ELSE /\ hpc' = "idle"
                   /\ hmsg' = NoMsg
                   /\ Reply(h, hmsg.transaction, v.code,
                            IF v.code = 0 THEN "hangingup" ELSE "error",
                            "none", << >>, "none")
    /\ UNCHANGED << rec_mutex, alloc, pkt, recorders, created, sessions, old_sessions, freed, messages, nextTx, relays,
                    now >>

\* the handler applies a validated generate or process request, answers it
\* and, for an answer, starts the media
HandlerApply ==
    /\ hpc = "apply"
    /\ uaf' = UseAfterFree(hmsg.handle)
    /\ \E env \in AllocEnv :
        LET h == hmsg.handle
            r == IF hmsg.request = "generate"
                 THEN ApplyGenerate(sess[h], hmsg, hmsg.transaction, env)
                 ELSE ApplyProcess(sess[h], hmsg)
            spawn == r.code = 0 /\ hmsg.type # "offer"
        IN /\ sess' = [sess EXCEPT ![h] = IF spawn THEN StartMedia(r.m) ELSE r.m]
           /\ relays' = [relays EXCEPT ![h] = IF spawn THEN SpawnRelay(@) ELSE @]
           /\ Reply(h, hmsg.transaction, r.code,
                    IF r.code # 0 THEN "error"
                    ELSE IF hmsg.request = "generate" THEN "generated" ELSE "processed",
                    IF r.code # 0 THEN "none" ELSE hmsg.type, r.out,
                    IF r.code = 0 /\ hmsg.request = "process" /\ r.m.has_srtp_remote
                    THEN (IF r.m.require_srtp THEN "sdes_mandatory" ELSE "sdes_optional")
                    ELSE "none")
    /\ hpc' = "idle"
    /\ hmsg' = NoMsg
    /\ UNCHANGED << rec_mutex, alloc, pkt, recorders, created, sessions, old_sessions, freed, messages, nextTx, now >>

\* ------------------------------------------------------------- relay thread
\* janus_nosip_connect_sockets: connect() of every socket whose remote port is
\* set; connect() on a closed descriptor fails and is only logged
ConnectSockets(m, addr) ==
    [m EXCEPT
       !.conn_rtp = [k \in Kinds |->
            IF m.remote_rtp_port[k] # 0 /\ m.rtp_fd[k] # -1
            THEN <<addr, m.remote_rtp_port[k]>> ELSE @[k]],
       !.conn_rtcp = [k \in Kinds |->
            IF m.remote_rtcp_port[k] # 0 /\ m.rtcp_fd[k] # -1
            THEN <<addr, m.remote_rtcp_port[k]>> ELSE @[k]]]

\* inet_aton(ip, ...) != 0
InetAton(ip) == ip \in NumericIps

\* the code after the relay loop: sockets and pipe closed, ports zeroed,
\* janus_nosip_srtp_cleanup
RelayTeardown(m) ==
    SrtpCleanup([m EXCEPT !.rtp_fd = AllKinds(-1), !.rtcp_fd = AllKinds(-1),
                          !.local_rtp_port = AllKinds(0),
                          !.local_rtcp_port = AllKinds(0),
                          !.conn_rtp = AllKinds(<<NoIp, 0>>),
                          !.conn_rtcp = AllKinds(<<NoIp, 0>>),
                          !.pipefd = -1, !.pipe_pending = 0])

\* The teardown is a run of plain stores under no lock.  Its intermediate
\* states show only to a thread that writes the same fields meanwhile, which
\* is the handler inside a generate request (janus_nosip_allocate_local_ports);
\* then the teardown is followed in two parts, cut between the two local port
\* stores of kind k.  TeardownFirst is the part up to local_<k>_rtp_port = 0.
TeardownKind(m, k) ==
    [m EXCEPT !.rtp_fd[k] = -1, !.rtcp_fd[k] = -1,
              !.conn_rtp[k] = <<NoIp, 0>>, !.conn_rtcp[k] = <<NoIp, 0>>,
              !.local_rtp_port[k] = 0, !.local_rtcp_port[k] = 0]

TeardownFirst(m, k) ==
    LET a == IF k = "video" THEN TeardownKind(m, "audio") ELSE m
    IN [a EXCEPT !.rtp_fd[k] = -1, !.rtcp_fd[k] = -1,
                 !.conn_rtp[k] = <<NoIp, 0>>, !.conn_rtcp[k] = <<NoIp, 0>>,
                 !.local_rtp_port[k] = 0]

\* the part from local_<k>_rtcp_port = 0 to janus_nosip_srtp_cleanup
TeardownRest(m, k) ==
    LET a == [m EXCEPT !.local_rtcp_port[k] = 0]
        v == IF k = "audio" THEN TeardownKind(a, "video") ELSE a
    IN SrtpCleanup([v EXCEPT !.pipefd = -1, !.pipe_pending = 0])

CutPc == [k \in Kinds |-> IF k = "audio" THEN "cut_audio" ELSE "cut_video"]

\* a loop condition that tests hangingup alone
RelayGoesOn_HangingupOnly(m) == m.hangingup = 0

\* the `while` condition of the relay loop (goon is still TRUE at the top)
RelayGoesOn(m) == m.destroyed = 0 /\ m.hangingup = 0

RelayFrame == << rec_mutex, alloc, pkt, recorders, created, sessions, old_sessions, freed, messages, nextTx, hpc,
                 hmsg, now, pushed, lastReply >>

\* a relay thread stops on a session the watchdog has freed
RelayUseAfterFree(h, i) ==
    /\ i \in 1 .. Len(relays[h])
    /\ relays[h][i].pc # "done"
    /\ h \in freed
    /\ uaf' = TRUE
    /\ relays' = [relays EXCEPT ![h][i] = DoneRelay]
    /\ UNCHANGED sess
    /\ UNCHANGED RelayFrame

\* the thread starts: resolves remote_ip, connects the sockets, takes pipefd[0]
RelayStart(h, i) ==
    /\ i \in 1 .. Len(relays[h])
    /\ relays[h][i].pc = "start"
    /\ LET m == sess[h]
           addr == IF m.remote_ip = NoIp THEN "0.0.0.0" ELSE m.remote_ip
       IN \E resolved \in BOOLEAN :
            LET have == m.remote_ip = NoIp \/ InetAton(m.remote_ip) \/ resolved
            IN /\ InetAton(m.remote_ip) => resolved
               /\ sess' = [sess EXCEPT ![h] = IF have THEN ConnectSockets(m, addr) ELSE m]
               /\ relays' = [relays EXCEPT ![h][i] =
                               [pc |-> "top", pipe_fd |-> m.pipefd,
                                server_addr |-> IF have THEN addr ELSE NoIp,
                                have_server_ip |-> have]]
    /\ uaf' = UseAfterFree(h)
    /\ UNCHANGED RelayFrame

\* the top of the loop: leave and tear down when the session is destroyed or
\* hanging up, else take a pending update and enter poll
RelayTop(h, i) ==
    /\ i \in 1 .. Len(relays[h])
    /\ relays[h][i].pc = "top"
    /\ LET m == sess[h]
           t == relays[h][i]
       IN IF ~RelayGoesOn(m)
          THEN /\ sess' = [sess EXCEPT ![h] = RelayTeardown(m)]
               /\ relays' = [relays EXCEPT ![h][i] = DoneRelay]
          ELSE /\ sess' = [sess EXCEPT ![h] =
                    IF m.updated
                    THEN [(IF t.have_server_ip /\ ~InetAton(m.remote_ip)
                           THEN ConnectSockets(m, t.server_addr) ELSE m)
                            EXCEPT !.updated = FALSE]
                    ELSE m]
               /\ relays' = [relays EXCEPT ![h][i].pc = "poll"]
    /\ uaf' = UseAfterFree(h)
    /\ UNCHANGED RelayFrame

\* the thread leaves its loop while the handler is inside a generate request
\* for the same session: the first part of the teardown
RelayTeardownFirst(h, i) ==
    /\ i \in 1 .. Len(relays[h])
    /\ relays[h][i].pc = "top"
    /\ ~RelayGoesOn(sess[h])
    /\ hpc = "apply" /\ hmsg.handle = h /\ hmsg.request = "generate"
    /\ \E k \in Kinds :
         /\ sess' = [sess EXCEPT ![h] = TeardownFirst(@, k)]
         /\ relays' = [relays EXCEPT ![h][i].pc = CutPc[k]]
    /\ uaf' = UseAfterFree(h)
    /\ UNCHANGED RelayFrame

\* the rest of that teardown, and the thread returns
RelayTeardownRest(h, i) ==
    /\ i \in 1 .. Len(relays[h])
    /\ \E k \in Kinds :
         /\ relays[h][i].pc = CutPc[k]
         /\ sess' = [sess EXCEPT ![h] = TeardownRest(@, k)]
    /\ relays' = [relays EXCEPT ![h][i] = DoneRelay]
    /\ uaf' = UseAfterFree(h)
    /\ UNCHANGED RelayFrame

\* the pipe descriptor this thread polls still is the session's pipe and holds
\* an unread wake-up
PipeReadable(m, t) == t.pipe_fd > 0 /\ t.pipe_fd = m.pipefd /\ m.pipe_pending > 0

\* poll returns 0 after its 1000 ms, or -1 with EINTR: back to the top
RelayPollTimeout(h, i) ==
    /\ i \in 1 .. Len(relays[h])
    /\ relays[h][i].pc = "poll"
    /\ ~PipeReadable(sess[h], relays[h][i])
    /\ relays' = [relays EXCEPT ![h][i].pc = "top"]
    /\ UNCHANGED << sess, uaf >>
    /\ UNCHANGED RelayFrame

\* what a poll that returns with events is followed through for; "refused"
\* (ECONNREFUSED on an RTCP socket, which closes that socket) is handled by
\* RelayPollReady but not drawn here
PollEvents == {"pipe", "packet", "sockerr", "pollfail"}

\* poll returns with something to read or an error condition.  ev is what the
\* scan of fds meets: the wake-up pipe, a packet, ECONNREFUSED on an RTCP
\* socket, another socket error, or poll itself failing
RelayPollReady(h, i) ==
    /\ i \in 1 .. Len(relays[h])
    /\ relays[h][i].pc = "poll"
    /\ LET m == sess[h]
           t == relays[h][i]
       IN \E ev \in PollEvents, k \in Kinds :
            /\ ev = "pipe" => PipeReadable(m, t)
            /\ ev = "packet" => m.rtp_fd[k] # -1
            /\ ev = "refused" => m.rtcp_fd[k] # -1
            /\ ev = "sockerr" => m.rtp_fd[k] # -1
            /\ IF ev = "pollfail" \/ m.destroyed # 0 \/ (ev = "sockerr" /\ ~m.updated)
               THEN /\ sess' = [sess EXCEPT ![h] = RelayTeardown(m)]
                    /\ relays' = [relays EXCEPT ![h][i] = DoneRelay]
               ELSE /\ sess' = [sess EXCEPT ![h] =
                         IF ev = "pipe" THEN [m EXCEPT !.pipe_pending = @ - 1]
                         ELSE IF ev = "refused" /\ ~m.updated
                         THEN [m EXCEPT !.rtcp_fd[k] = -1]
                         ELSE m]
                    /\ relays' = [relays EXCEPT ![h][i].pc = "top"]
    /\ uaf' = UseAfterFree(h)
    /\ UNCHANGED RelayFrame

\* ------------------------------------------------------------ specification
Next ==
    \/ \E h \in Handles : CreateSession(h)
    \/ \E h \in Handles : HandleMessage(h)
    \/ \E h \in Handles : SetupMedia(h)
    \/ \E h \in Handles : HangupMedia(h)
    \/ \E h \in Handles : DestroySession(h)
    \/ HandlerDequeue
    \/ HandlerValidate
    \/ HandlerApply
    \/ HandlerUseAfterFree
    \/ \E h \in Handles, i \in 1 .. MaxRequests : RelayStart(h, i)
    \/ \E h \in Handles, i \in 1 .. MaxRequests : RelayTop(h, i)
    \/ \E h \in Handles, i \in 1 .. MaxRequests : RelayPollTimeout(h, i)
    \/ \E h \in Handles, i \in 1 .. MaxRequests : RelayPollReady(h, i)
    \/ \E h \in Handles, i \in 1 .. MaxRequests : RelayUseAfterFree(h, i)
    \/ \E h \in Handles, i \in 1 .. MaxRequests : RelayTeardownFirst(h, i)
    \/ \E h \in Handles, i \in 1 .. MaxRequests : RelayTeardownRest(h, i)
    \/ Watchdog
    \/ Tick

Spec == Init /\ [][Next]_vars

\* ------------------------------------------------------- the media plane
\* The packets themselves: what the relay loop does with a packet it reads
\* from a socket, what janus_nosip_incoming_rtp / _rtcp do with a packet from
\* the WebRTC side, the socket errors poll reports, and the recorders.  One
\* packet is followed at a time.  While a thread has it in hand, `pkt` says
\* who has it (src), its kind and whether it is RTCP, the context handed to
\* libsrtp (ctx: "set", "null" for a NULL pointer, "none" when SRTP is not in
\* use), what libsrtp returned (res) and the recorder pointer read for
\* janus_recorder_save_frame (rec).  When the thread is done with it only
\* what became of it stays (out).
SrtpResults == {"ok", "replay_fail", "replay_old", "auth_fail"}
InHand(p) == p.src # "none" /\ p.out = "none"
Done(out) == [NoPkt EXCEPT !.out = out]

\* the test after srtp_unprotect / srtp_unprotect_rtcp: TRUE when the loop
\* logs the error and goes to the next descriptor
UnprotectStops(res) ==
    res # "none" /\ res # "ok" /\ res # "replay_fail" /\ res # "replay_old"

\* the relay loop from recvfrom to the recorder: srtp_unprotect /
\* srtp_unprotect_rtcp when has_srtp_remote; an RTP packet that goes on has
\* session->arc_peer / vrc_peer read for it (r is that pointer)
RelayPacketIn(m, k, rtcp, res, r) ==
    LET srtp == m.has_srtp_remote
        result == IF srtp THEN res ELSE "none"
    IN [src |-> "relay", kind |-> k, rtcp |-> rtcp, res |-> result,
        ctx |-> IF srtp THEN (IF m.srtp_in[k] THEN "set" ELSE "null") ELSE "none",
        rec |-> IF rtcp \/ UnprotectStops(result) THEN "none" ELSE r,
        out |-> "none"]

\* a relay thread reads a packet from a socket that is open; results is what
\* libsrtp may return
RelayRecv(h, i, results) ==
    /\ i \in 1 .. Len(relays[h])
    /\ relays[h][i].pc = "poll"
    /\ sess[h].destroyed = 0
    /\ ~InHand(pkt)
    /\ \E k \in Kinds, rtcp \in BOOLEAN, res \in results :
         LET m == sess[h]
         IN /\ (IF rtcp THEN m.rtcp_fd[k] ELSE m.rtp_fd[k]) # -1
            /\ ~m.has_srtp_remote => res = "ok"
            /\ pkt' = RelayPacketIn(m, k, rtcp, res, recorders[h][SlotOf("relay", k)])
    /\ relays' = [relays EXCEPT ![h][i].pc = "packet"]
    /\ uaf' = UseAfterFree(h)
    /\ UNCHANGED << rec_mutex, alloc, recorders, created, sessions, old_sessions, freed, sess,
                    messages, nextTx, hpc, hmsg, now, pushed, lastReply >>

\* what the relay loop does with the packet in hand: "dropped" after the
\* logged unprotect error, else janus_recorder_save_frame (RTP) and
\* gateway->relay_rtp / relay_rtcp
RelayPacketOut(p) == IF UnprotectStops(p.res) THEN "dropped" ELSE "relayed"

RelaySave(h, i) ==
    /\ i \in 1 .. Len(relays[h])
    /\ relays[h][i].pc = "packet"
    /\ pkt' = Done(RelayPacketOut(pkt))
    /\ relays' = [relays EXCEPT ![h][i].pc = "top"]
    /\ uaf' = UseAfterFree(h)
    /\ UNCHANGED << rec_mutex, alloc, recorders, created, sessions, old_sessions, freed, sess,
                    messages, nextTx, hpc, hmsg, now, pushed, lastReply >>

\* janus_nosip_incoming_rtp (rtcp FALSE) and janus_nosip_incoming_rtcp: the
\* callback has passed its tests; for RTP it has read session->arc / vrc
ShimRecv(h) ==
    /\ h \in created
    /\ sess[h].destroyed = 0
    /\ ~InHand(pkt)
    /\ \E k \in Kinds, rtcp \in BOOLEAN :
         /\ ~rtcp => sess[h].send[k]
         /\ sess[h].has[k]
         /\ (IF rtcp THEN sess[h].rtcp_fd[k] ELSE sess[h].rtp_fd[k]) # -1
         /\ pkt' = [NoPkt EXCEPT !.src = "shim", !.kind = k, !.rtcp = rtcp,
                                 !.rec = IF rtcp THEN "none"
                                         ELSE recorders[h][SlotOf("shim", k)]]
    /\ UNCHANGED << rec_mutex, alloc, recorders, created, sessions, old_sessions, freed, sess,
                    messages, nextTx, hpc, hmsg, relays, now, pushed, lastReply, uaf >>

\* srtp_protect / srtp_protect_rtcp when has_srtp_local, then send() on the
\* descriptor the session holds now: on -1 it fails with EBADF ("failed")
ShimOut(m, p, res) ==
    [p EXCEPT !.ctx = IF m.has_srtp_local
                      THEN (IF m.srtp_out[p.kind] THEN "set" ELSE "null") ELSE "none",
              !.res = IF m.has_srtp_local THEN res ELSE "none",
              !.out = IF m.has_srtp_local /\ res # "ok" THEN "dropped"
                      ELSE IF (IF p.rtcp THEN m.rtcp_fd[p.kind] ELSE m.rtp_fd[p.kind]) = -1
                      THEN "failed"
                      ELSE "relayed"]

\* the rest of the callback: save_frame with the pointer read (RTP), then the
\* packet is protected and sent
ShimSend(h) ==
    /\ pkt.src = "shim" /\ InHand(pkt)
    /\ \E res \in {"ok", "auth_fail"} :
         /\ ~sess[h].has_srtp_local => res = "ok"
         /\ pkt' = Done(ShimOut(sess[h], pkt, res).out)
    /\ uaf' = UseAfterFree(h)
    /\ UNCHANGED << rec_mutex, alloc, recorders, created, sessions, old_sessions, freed, sess,
                    messages, nextTx, hpc, hmsg, relays, now, pushed, lastReply >>

\* the "recording" request, which the handler thread serves like the others:
\* action start opens a recorder for every flag that is true (the pointer is
\* overwritten; janus_recorder_create may return NULL), action stop closes
\* and frees the flagged recorders; all of it under rec_mutex
RecordingStart(r, slots, opened) ==
    [s \in RecorderSlots |->
        IF s \in slots THEN (IF s \in opened THEN "open" ELSE "null") ELSE r[s]]
RecordingStop(r, slots) ==
    [s \in RecorderSlots |-> IF s \in slots THEN "null" ELSE r[s]]

HandlerRecording ==
    /\ hpc = "validate"
    /\ LET h == hmsg.handle
       IN \E act \in {"start", "stop", "pause"}, slots \in SUBSET RecorderSlots :
            LET code == IF act = "pause" THEN JANUS_NOSIP_ERROR_INVALID_ELEMENT
                        ELSE IF slots = {} THEN JANUS_NOSIP_ERROR_RECORDING_ERROR
                        ELSE 0
            IN /\ IF code # 0 THEN UNCHANGED << recorders, pkt >>
                  ELSE IF act = "start"
                  THEN /\ \E opened \in SUBSET slots :
                            recorders' = [recorders EXCEPT ![h] =
                                            RecordingStart(@, slots, opened)]
                       /\ UNCHANGED pkt
                  ELSE /\ recorders' = [recorders EXCEPT ![h] = RecordingStop(@, slots)]
                       /\ pkt' = RecorderFreed(pkt, slots)
               /\ Reply(h, hmsg.transaction, code,
                        IF code = 0 THEN "recordingupdated" ELSE "error",
                        "none", << >>, "none")
    /\ uaf' = UseAfterFree(hmsg.handle)
    /\ hpc' = "idle"
    /\ hmsg' = NoMsg
    /\ UNCHANGED << rec_mutex, alloc, created, sessions, old_sessions, freed, sess, messages,
                    nextTx, relays, now >>

\* poll returns with POLLERR or POLLHUP on a socket whose SO_ERROR is not
\* zero: "refused" is ECONNREFUSED (111), "other" any other error
RelayPollError(h, i) ==
    /\ i \in 1 .. Len(relays[h])
    /\ relays[h][i].pc = "poll"
    /\ sess[h].destroyed = 0
    /\ ~InHand(pkt)
    /\ \E k \in Kinds, rtcp \in BOOLEAN, err \in {"refused", "other"} :
         /\ (IF rtcp THEN sess[h].rtcp_fd[k] ELSE sess[h].rtp_fd[k]) # -1
         /\ pkt' = [NoPkt EXCEPT !.src = "pollerr", !.kind = k, !.rtcp = rtcp,
                                 !.res = err]
    /\ relays' = [relays EXCEPT ![h][i].pc = "pollerr"]
    /\ uaf' = UseAfterFree(h)
    /\ UNCHANGED << rec_mutex, alloc, recorders, created, sessions, old_sessions, freed, sess,
                    messages, nextTx, hpc, hmsg, now, pushed, lastReply >>

\* a scan for which ECONNREFUSED is as fatal as any other error
PollError_RefusedFatal(m, p) ==
    IF m.updated THEN "calm" ELSE "close_pc"

\* a scan for which every ECONNREFUSED that is not on an RTCP socket is fatal
PollError_RefusedRtpFatal(m, p) ==
    IF m.updated THEN "calm"
    ELSE IF p.res = "refused" /\ p.rtcp THEN "closed"
    ELSE "close_pc"

\* what the scan does with it.  With `updated` set the scan is left and
\* nothing is done ("calm"); ECONNREFUSED closes the socket when it is an RTCP
\* socket ("closed") and is passed over otherwise ("passed"); any other error
\* ends the loop after gateway->close_pc ("close_pc")
PollError(m, p) ==
    IF m.updated THEN "calm"
    ELSE IF p.res = "refused" THEN (IF p.rtcp THEN "closed" ELSE "passed")
    ELSE "close_pc"

RelayOnError(h, i) ==
    /\ i \in 1 .. Len(relays[h])
    /\ relays[h][i].pc = "pollerr"
    /\ LET m == sess[h]
           out == PollError(m, pkt)
       IN /\ pkt' = Done(out)
          /\ sess' = [sess EXCEPT ![h] =
                        IF out = "closed" THEN [m EXCEPT !.rtcp_fd[pkt.kind] = -1]
                        ELSE IF out = "close_pc" THEN RelayTeardown(m)
                        ELSE m]
          /\ relays' = [relays EXCEPT ![h][i] =
                          IF out = "close_pc" THEN DoneRelay
                          ELSE [@ EXCEPT !.pc = "top"]]
    /\ uaf' = UseAfterFree(h)
    /\ UNCHANGED << rec_mutex, alloc, recorders, created, sessions, old_sessions, freed,
                    messages, nextTx, hpc, hmsg, now, pushed, lastReply >>

\* the requests, the callbacks and the relay loop that the media plane runs
\* beside
SignallingNext ==
    \/ \E h \in Handles : CreateSession(h)
    \/ \E h \in Handles : HandleMessage(h)
    \/ \E h \in Handles : HangupMedia(h)
    \/ HandlerDequeue
    \/ HandlerValidate
    \/ HandlerApply
    \/ \E h \in Handles, i \in 1 .. MaxRequests : RelayStart(h, i)
    \/ \E h \in Handles, i \in 1 .. MaxRequests : RelayTop(h, i)
    \/ \E h \in Handles, i \in 1 .. MaxRequests : RelayPollTimeout(h, i)
    \/ \E h \in Handles, i \in 1 .. MaxRequests : RelayPollReady(h, i)

\* packets in both directions, with every result libsrtp may give
PacketNext ==
    \/ SignallingNext
    \/ \E h \in Handles, i \in 1 .. MaxRequests : RelayRecv(h, i, SrtpResults)
    \/ \E h \in Handles, i \in 1 .. MaxRequests : RelaySave(h, i)
    \/ \E h \in Handles : ShimRecv(h)
    \/ \E h \in Handles : ShimSend(h)

PacketSpec == Init /\ [][PacketNext]_vars

\* the socket errors of the relay loop
PollNext ==
    \/ SignallingNext
    \/ \E h \in Handles, i \in 1 .. MaxRequests : RelayPollError(h, i)
    \/ \E h \in Handles, i \in 1 .. MaxRequests : RelayOnError(h, i)

PollSpec == Init /\ [][PollNext]_vars

\* the recorders, with the packets that are saved to them
RecordingNext ==
    \/ SignallingNext
    \/ HandlerRecording
    \/ \E h \in Handles, i \in 1 .. MaxRequests : RelayRecv(h, i, {"ok"})
    \/ \E h \in Handles, i \in 1 .. MaxRequests : RelaySave(h, i)
    \/ \E h \in Handles : ShimRecv(h)
    \/ \E h \in Handles : ShimSend(h)

RecordingSpec == Init /\ [][RecordingNext]_vars

\* ------------------------------------------------------------ rec_mutex
\* The recording request and the hangup followed lock by lock: each context
\* validates (handler) or counts itself in and wakes the relay thread
\* (hangup), waits in janus_mutex_lock, writes the recorders while it holds
\* rec_mutex, and unlocks.
Holders(h) == { c \in RecContexts : rec_mutex[h][c] = "holds" }

\* a janus_mutex_lock that never waits
MutexFree_NoWait(h) == TRUE

\* janus_mutex_lock(&session->rec_mutex) returns
MutexFree(h) == Holders(h) = {}

LockFrame == << alloc, pkt, created, sessions, old_sessions, freed, messages,
                nextTx, relays, now >>

\* the handler thread up to janus_mutex_lock: the action and flag checks
\* answer with an error, a valid request goes on to the lock
HandlerRecordingChecks ==
    /\ hpc = "validate"
    /\ LET h == hmsg.handle
       IN \E act \in {"start", "stop", "pause"}, anyflag \in BOOLEAN :
            LET code == IF act = "pause" THEN JANUS_NOSIP_ERROR_INVALID_ELEMENT
                        ELSE IF ~anyflag THEN JANUS_NOSIP_ERROR_RECORDING_ERROR
                        ELSE 0
            IN IF code # 0
               THEN /\ Reply(h, hmsg.transaction, code, "error", "none", << >>, "none")
                    /\ hpc' = "idle"
                    /\ hmsg' = NoMsg
                    /\ UNCHANGED rec_mutex
               ELSE /\ hpc' = "recording"
                    /\ hmsg' = [hmsg EXCEPT !.request = "recording", !.type = act]
                    /\ rec_mutex' = [rec_mutex EXCEPT ![h]["handler"] = "waits"]
                    /\ UNCHANGED << pushed, lastReply >>
    /\ uaf' = UseAfterFree(hmsg.handle)
    /\ UNCHANGED << recorders, sess >>
    /\ UNCHANGED LockFrame

\* janus_nosip_hangup_media up to the lock: every caller adds to hangingup,
\* the first since the last reset writes the wake-up and goes on to the lock
HangupEnter(h) ==
    /\ h \in created
    /\ LookupSession(h)
    /\ sess[h].destroyed = 0
    /\ rec_mutex[h]["hangup"] = "out"
    /\ sess' = [sess EXCEPT ![h] = HangupMediaInternal(@)]
    /\ rec_mutex' = [rec_mutex EXCEPT ![h]["hangup"] =
                        IF sess[h].hangingup = 0 THEN "waits" ELSE "out"]
    /\ UNCHANGED << recorders, hpc, hmsg, pushed, lastReply, uaf >>
    /\ UNCHANGED LockFrame

\* janus_mutex_lock returns in context c
RecLock(h, c) ==
    /\ rec_mutex[h][c] = "waits"
    /\ MutexFree(h)
    /\ rec_mutex' = [rec_mutex EXCEPT ![h][c] = "holds"]
    /\ UNCHANGED << recorders, sess, hpc, hmsg, pushed, lastReply, uaf >>
    /\ UNCHANGED LockFrame

\* the handler thread from the lock to the reply: recorders opened or closed
\* and freed, janus_mutex_unlock, "recordingupdated"
HandlerRecordingLocked ==
    /\ hpc = "recording"
    /\ LET h == hmsg.handle
       IN /\ rec_mutex[h]["handler"] = "holds"
          /\ \E slots \in (SUBSET RecorderSlots) \ {{}} :
               IF hmsg.type = "start"
               THEN \E opened \in SUBSET slots :
                      recorders' = [recorders EXCEPT ![h] = RecordingStart(@, slots, opened)]
               ELSE recorders' = [recorders EXCEPT ![h] = RecordingStop(@, slots)]
          /\ rec_mutex' = [rec_mutex EXCEPT ![h]["handler"] = "out"]
          /\ Reply(h, hmsg.transaction, 0, "recordingupdated", "none", << >>, "none")
    /\ uaf' = UseAfterFree(hmsg.handle)
    /\ hpc' = "idle"
    /\ hmsg' = NoMsg
    /\ UNCHANGED sess
    /\ UNCHANGED LockFrame

\* the hangup from the lock to its return: the four recorders closed and
\* freed, janus_mutex_unlock
HangupLocked(h) ==
    /\ rec_mutex[h]["hangup"] = "holds"
    /\ recorders' = [recorders EXCEPT ![h] = NoRecorders]
    /\ rec_mutex' = [rec_mutex EXCEPT ![h]["hangup"] = "out"]
    /\ UNCHANGED << sess, hpc, hmsg, pushed, lastReply, uaf >>
    /\ UNCHANGED LockFrame

RecMutexNext ==
    \/ \E h \in Handles : CreateSession(h)
    \/ \E h \in Handles : HandleMessage(h)
    \/ HandlerDequeue
    \/ HandlerValidate
    \/ HandlerApply
    \/ HandlerRecordingChecks
    \/ HandlerRecordingLocked
    \/ \E h \in Handles : HangupEnter(h)
    \/ \E h \in Handles : HangupLocked(h)
    \/ \E h \in Handles, c \in RecContexts : RecLock(h, c)

RecMutexSpec == Init /\ [][RecMutexNext]_vars

\* ------------------------------------- sdp_manipulate beside the teardown
\* janus_nosip_sdp_manipulate (handler thread) reads has_srtp_local and then
\* creates the outbound context, under no lock; the relay thread's teardown
\* ends in janus_nosip_srtp_cleanup on the same session.  Here the generate
\* branch is followed in two parts, cut in janus_nosip_sdp_manipulate between
\* the test `if(session->media.has_srtp_local)` of the first audio or video
\* m-line, found true, and the statements that test guards.
KindLines(sdp) == { j \in 1 .. Len(sdp.m_lines) : sdp.m_lines[j].type \in Kinds }

\* the rewrite of `lines` when that test has been taken for the first audio
\* or video line among them
RECURSIVE ManipulateTested(_, _, _)
ManipulateTested(m, lines, out) ==
    IF lines = << >> THEN [m |-> m, out |-> out]
    ELSE LET l == Head(lines)
             k == l.type
             proto == IF m.require_srtp THEN "RTP/SAVP" ELSE "RTP/AVP"
         IN IF k \notin Kinds
            THEN ManipulateTested(m, Tail(lines),
                    Append(out, [type |-> k, proto |-> proto, port |-> l.port,
                                 ncrypto |-> Len(l.crypto)]))
            ELSE ManipulateLines(
                    SrtpSetLocal([m EXCEPT !.srtp_suite_out["audio"] = SuiteOut], k),
                    Tail(lines),
                    Append(out, [type |-> k, proto |-> proto,
                                 port |-> m.local_rtp_port[k],
                                 ncrypto |-> Len(l.crypto) + 1]))

\* the generate branch up to that test: has_audio / has_video marked, the
\* ports allocated, has_srtp_local read as TRUE
HandlerManipulateTest ==
    /\ hpc = "apply"
    /\ hmsg.request = "generate"
    /\ KindLines(hmsg.sdp) # {}
    /\ \E env \in AllocEnv :
        LET h == hmsg.handle
            m1 == [sess[h] EXCEPT !.has = [k \in Kinds |-> @[k] \/ HasKindText(hmsg.sdp, k)]]
            a == AllocateLocalPorts(m1, hmsg.transaction, env)
        IN /\ a.ret = 0
           /\ a.m.has_srtp_local
           /\ sess' = [sess EXCEPT ![h] = a.m]
    /\ hpc' = "manipulate"
    /\ uaf' = UseAfterFree(hmsg.handle)
    /\ UNCHANGED << rec_mutex, alloc, pkt, recorders, created, sessions, old_sessions,
                    freed, messages, nextTx, hmsg, relays, now, pushed, lastReply >>

\* the rest of the generate branch: the context of that line is created, the
\* other lines are rewritten, the request is answered and, for an answer, the
\* media started
HandlerManipulateRest ==
    /\ hpc = "manipulate"
    /\ LET h == hmsg.handle
           r == ManipulateTested(sess[h], hmsg.sdp.m_lines, << >>)
           m == [r.m EXCEPT !.sdp = hmsg.sdp.name, !.hangingup = 0]
           spawn == hmsg.type # "offer"
       IN /\ sess' = [sess EXCEPT ![h] = IF spawn THEN StartMedia(m) ELSE m]
          /\ relays' = [relays EXCEPT ![h] = IF spawn THEN SpawnRelay(@) ELSE @]
          /\ Reply(h, hmsg.transaction, 0, "generated", hmsg.type, r.out, "none")
    /\ hpc' = "idle"
    /\ hmsg' = NoMsg
    /\ uaf' = UseAfterFree(hmsg.handle)
    /\ UNCHANGED << rec_mutex, alloc, pkt, recorders, created, sessions, old_sessions,
                    freed, messages, nextTx, now >>

ManipulateNext ==
    \/ SignallingNext
    \/ HandlerManipulateTest
    \/ HandlerManipulateRest

ManipulateSpec == Init /\ [][ManipulateNext]_vars

\* --------------------------------------------------- the session update
\* janus_nosip_sdp_process in its update mode (update = TRUE), the one writer
\* of `updated`, and the relay loop that reads the flag.  The function has
\* external linkage; the handler calls it with update = FALSE only, so the
\* sessions here are those a call in update mode leaves: a session that was
\* offered o by the peer and answered, whose relay thread has connected the
\* sockets and is at the top of its loop, and on which u is then processed
\* as an update.
UpdateHandle == "h1"
UpdateSdps == { d \in SdpInputs : d.parses /\ ~d.app }
AnsweredSession(o, env) ==
    LET b == [NoMsg EXCEPT !.request = "generate", !.type = "answer", !.sdp = o]
        p == ApplyProcess(NewSession, [b EXCEPT !.request = "process", !.type = "offer"])
        v == GenerateSrtpStage(p.m, b)
        g == ApplyGenerate(v.m, b, 1, env)
    IN [ok |-> p.code = 0 /\ v.code = 0 /\ g.code = 0,
        m |-> ConnectSockets(StartMedia(g.m), g.m.remote_ip)]
UpdatedSessions ==
    UNION { IF AnsweredSession(o, env).ok
            THEN { SdpProcess(AnsweredSession(o, env).m, u, answer, TRUE).m :
                      u \in UpdateSdps, answer \in BOOLEAN }
            ELSE {} :
            o \in UpdateSdps, env \in AllocEnv }
\* the address the thread resolved when it started: the one its sockets are
\* connected to
ConnectedAddr(m) ==
    LET ks == { k \in Kinds : m.conn_rtp[k][1] # NoIp }
    IN IF ks = {} THEN NoIp ELSE m.conn_rtp[CHOOSE k \in ks : TRUE][1]

UpdateInit ==
    /\ created = {UpdateHandle}
    /\ sessions = {UpdateHandle}
    /\ old_sessions = << >>
    /\ freed = {}
    /\ sess \in [Handles -> UpdatedSessions]
    /\ messages = << >>
    /\ nextTx = 1
    /\ hpc = "idle"
    /\ hmsg = NoMsg
    /\ relays = [h \in Handles |->
                    << [pc |-> "top", pipe_fd |-> sess[h].pipefd,
                        server_addr |-> ConnectedAddr(sess[h]),
                        have_server_ip |-> TRUE] >>]
    /\ now = 1
    /\ pushed = 0
    /\ lastReply = NoReply
    /\ uaf = FALSE
    /\ alloc = NoAlloc
    /\ pkt = NoPkt
    /\ recorders = [h \in Handles |-> NoRecorders]
    /\ rec_mutex = [h \in Handles |-> NoContexts]

UpdateNext ==
    \/ \E h \in Handles : HangupMedia(h)
    \/ \E h \in Handles : SetupMedia(h)
    \/ \E h \in Handles, i \in 1 .. MaxRequests : RelayTop(h, i)
    \/ \E h \in Handles, i \in 1 .. MaxRequests : RelayPollTimeout(h, i)
    \/ \E h \in Handles, i \in 1 .. MaxRequests : RelayPollReady(h, i)

UpdateSpec == UpdateInit /\ [][UpdateNext]_vars

\* ------------------------------------------ the bind loop, step by step
\* janus_nosip_allocate_local_ports followed one loop iteration at a time, on
\* the session of AllocHandle.  alloc.pc is where the call is ("enter", "loop",
\* "pipe", or the return statement it left by), alloc.kind the kind whose
\* loop it runs, alloc.attempts the local `attempts`, alloc.ret the value
\* returned.
MaxAttempts == 100      \* int attempts = 100
AllocHandle == "h1"

\* the sessions a generate request enters the function with: any has_audio /
\* has_video marks, nothing allocated yet or a pair per marked kind left by an
\* earlier call
AllocSessions ==
    { [NewSession EXCEPT !.has = hs] : hs \in [Kinds -> BOOLEAN] }
    \cup { [NewSession EXCEPT !.has = hs,
                              !.rtp_fd = [k \in Kinds |-> IF hs[k] THEN 1 ELSE -1],
                              !.rtcp_fd = [k \in Kinds |-> IF hs[k] THEN 1 ELSE -1],
                              !.local_rtp_port = [k \in Kinds |->
                                  IF ~hs[k] THEN 0
                                  ELSE IF k = "audio" THEN rtp_range_min
                                  ELSE rtp_range_min + 2],
                              !.local_rtcp_port = [k \in Kinds |->
                                  IF ~hs[k] THEN 0
                                  ELSE IF k = "audio" THEN rtp_range_min + 1
                                  ELSE rtp_range_min + 3],
                              !.pipefd = 1] : hs \in [Kinds -> BOOLEAN] }

AllocInit ==
    /\ created = {AllocHandle}
    /\ sessions = {AllocHandle}
    /\ old_sessions = << >>
    /\ freed = {}
    /\ sess \in [Handles -> AllocSessions]
    /\ messages = << >>
    /\ nextTx = 1
    /\ hpc = "apply"
    /\ hmsg = [NoMsg EXCEPT !.handle = AllocHandle, !.request = "generate"]
    /\ relays = [h \in Handles |-> << >>]
    /\ now = 1
    /\ pushed = 0
    /\ lastReply = NoReply
    /\ uaf = FALSE
    /\ alloc = [NoAlloc EXCEPT !.pc = "enter"]
    /\ pkt = NoPkt
    /\ recorders = [h \in Handles |-> NoRecorders]
    /\ rec_mutex = [h \in Handles |-> NoContexts]

AllocFrame == << rec_mutex, pkt, recorders, created, sessions, old_sessions, freed, messages, nextTx, hpc,
                 hmsg, relays, now, pushed, lastReply, uaf >>

\* the `while` condition of the loop of kind k
AllocNeeds(m, k) == m.local_rtp_port[k] = 0 \/ m.local_rtcp_port[k] = 0

\* a failed bind that is not counted
BindFailed_NotCounted(a) == a

\* attempts--; continue
BindFailed(a) == [a EXCEPT !.attempts = @ - 1]

\* "Reset status", then int attempts = 100
AllocEnter ==
    /\ alloc.pc = "enter"
    /\ sess' = [sess EXCEPT ![AllocHandle] = AllocReset(@)]
    /\ alloc' = [alloc EXCEPT !.pc = "loop", !.kind = "audio",
                              !.attempts = MaxAttempts]
    /\ UNCHANGED AllocFrame

\* the kind is not negotiated, or its loop condition is false: on to the
\* video loop, and from there to pipe()
AllocSkip ==
    /\ alloc.pc = "loop"
    /\ LET m == sess[AllocHandle]
       IN ~m.has[alloc.kind] \/ ~AllocNeeds(m, alloc.kind)
    /\ alloc' = IF alloc.kind = "audio" THEN [alloc EXCEPT !.kind = "video"]
                ELSE [alloc EXCEPT !.pc = "pipe"]
    /\ UNCHANGED sess
    /\ UNCHANGED AllocFrame

\* if(attempts == 0) return -1;
AllocGiveUp ==
    /\ alloc.pc = "loop"
    /\ sess[AllocHandle].has[alloc.kind]
    /\ AllocNeeds(sess[AllocHandle], alloc.kind)
    /\ alloc.attempts = 0
    /\ alloc' = [alloc EXCEPT !.pc = "return_attempts", !.ret = -1]
    /\ UNCHANGED sess
    /\ UNCHANGED AllocFrame

\* socket() fails for the RTP socket, the RTCP socket or both (only a socket
\* that is -1 is created): return -1
AllocNoSocket ==
    /\ alloc.pc = "loop"
    /\ sess[AllocHandle].has[alloc.kind]
    /\ AllocNeeds(sess[AllocHandle], alloc.kind)
    /\ alloc.attempts # 0
    /\ LET m == sess[AllocHandle]
           k == alloc.kind
       IN \E rtp_ok, rtcp_ok \in BOOLEAN :
            /\ ~rtp_ok \/ ~rtcp_ok
            /\ ~rtp_ok => m.rtp_fd[k] = -1
            /\ ~rtcp_ok => m.rtcp_fd[k] = -1
            /\ sess' = [sess EXCEPT ![AllocHandle] =
                          [m EXCEPT !.rtp_fd[k] = IF rtp_ok THEN 1 ELSE -1,
                                    !.rtcp_fd[k] = IF rtcp_ok THEN 1 ELSE -1]]
    /\ alloc' = [alloc EXCEPT !.pc = "return_socket", !.ret = -1]
    /\ UNCHANGED AllocFrame

\* one iteration with both sockets there: a port is drawn and made even, then
\* the RTP bind fails, or the RTCP bind fails, or the pair is bound
AllocBind ==
    /\ alloc.pc = "loop"
    /\ sess[AllocHandle].has[alloc.kind]
    /\ AllocNeeds(sess[AllocHandle], alloc.kind)
    /\ alloc.attempts # 0
    /\ LET m == sess[AllocHandle]
           k == alloc.kind
       IN \E p \in CandidatePorts, res \in {"bound", "rtp_fails", "rtcp_fails"} :
            /\ res = "bound" => \A j \in Kinds : m.local_rtp_port[j] # p
            /\ sess' = [sess EXCEPT ![AllocHandle] =
                 IF res = "bound"
                 THEN [m EXCEPT !.rtp_fd[k] = 1, !.rtcp_fd[k] = 1,
                                !.local_rtp_port[k] = p,
                                !.local_rtcp_port[k] = p + 1]
                 ELSE IF res = "rtp_fails"
                 THEN [m EXCEPT !.rtp_fd[k] = -1, !.rtcp_fd[k] = 1]
                 ELSE [m EXCEPT !.rtp_fd[k] = -1, !.rtcp_fd[k] = -1]]
            /\ alloc' = IF res = "bound" THEN alloc ELSE BindFailed(alloc)
    /\ UNCHANGED AllocFrame

\* pipe(session->media.pipefd); return 0;
AllocPipe ==
    /\ alloc.pc = "pipe"
    /\ sess' = [sess EXCEPT ![AllocHandle].pipefd = 1]
    /\ alloc' = [alloc EXCEPT !.pc = "return_0", !.ret = 0]
    /\ UNCHANGED AllocFrame

AllocNext ==
    \/ AllocEnter
    \/ AllocSkip
    \/ AllocGiveUp
    \/ AllocNoSocket
    \/ AllocBind
    \/ AllocPipe

\* the thread that called the function goes on running it
AllocSpec == AllocInit /\ [][AllocNext]_vars /\ WF_vars(AllocNext)

\* --------------------------------------------------------------- properties
\* the relay threads of h that have not returned
Running(h) == { i \in 1 .. Len(relays[h]) : relays[h][i].pc # "done" }

\* this step is the handler answering (push_event) the request it holds for h
\* from the stage `stage`
Answers(h, stage) == hpc = stage /\ hmsg.handle = h /\ pushed' = pushed + 1

\* the m-lines of an SDP text carry no a=crypto attribute
PlainSdp(sdp) == \A j \in 1 .. Len(sdp.m_lines) : sdp.m_lines[j].crypto = << >>

\* C1: a session has at most one relay thread running at any time; an accepted
\* answer arriving while one runs does not start a second
C1_AtMostOneRelay == \A h \in Handles : Cardinality(Running(h)) <= 1

\* C2: once destroy_session has stamped a session, no relay thread of it enters
\* poll again: a thread that was in poll comes back from that one poll, a
\* thread that evaluates the loop condition leaves the loop and runs the
\* teardown, in one part or in two (while the session's storage is still there)
C2_RelayExitsAfterDestroy ==
    [][\A h \in Handles : \A i \in 1 .. Len(relays[h]) :
         (sess[h].destroyed # 0 /\ h \notin freed
            /\ relays'[h][i].pc # relays[h][i].pc)
         => /\ relays'[h][i].pc # "poll"
            /\ relays[h][i].pc = "poll" => relays'[h][i].pc \in {"top", "done"}
            /\ relays[h][i].pc = "top" =>
                 \/ /\ relays'[h][i].pc = "done"
                    /\ sess'[h] = RelayTeardown(sess[h])
                 \/ \E k \in Kinds :
                      /\ relays'[h][i].pc = CutPc[k]
                      /\ sess'[h] = TeardownFirst(sess[h], k)
            /\ (\E k \in Kinds : relays[h][i].pc = CutPc[k]) =>
                 relays'[h][i].pc = "done"]_vars

\* C2 happens: destroy_session has run on a session whose relay thread is in
\* poll, with its sockets and wake-up pipe open
C2_Witness ==
    \E h \in Handles : \E i \in 1 .. Len(relays[h]) :
        /\ sess[h].destroyed # 0
        /\ h \notin freed
        /\ relays[h][i].pc = "poll"
        /\ relays[h][i].pipe_fd > 0 /\ relays[h][i].pipe_fd = sess[h].pipefd
        /\ sess[h].pipe_pending > 0

\* C3: when the watchdog frees a session, every relay thread of the session
\* has returned and the handler thread is not working on the session
C3_FreedOnlyWhenUnused ==
    [][\A h \in Handles :
         (h \in freed' /\ h \notin freed)
         => /\ Running(h) = {}
            /\ ~(hpc # "idle" /\ hmsg.handle = h)]_vars

\* C4: the handler thread changes a session, allocates its ports or starts a
\* relay thread for it only while the session's `destroyed` is zero
C4_NoRequestOnDestroyed ==
    [][\A h \in Handles :
         (hpc \in {"validate", "apply"} /\ hmsg.handle = h /\ hpc' # hpc
            /\ (sess'[h] # sess[h] \/ relays'[h] # relays[h]))
         => sess[h].destroyed = 0]_vars

\* C5: a destroyed session (destroyed non-zero) is not in the hash table, so a
\* lookup of its handle finds nothing; the step that takes a session out of
\* the table stamps `destroyed` and puts it on old_sessions; a handle that has
\* left the table never comes back
C5_DestroyedNotLive ==
    [][\A h \in Handles :
         /\ sess'[h].destroyed # 0 => ~LookupSession(h)'
         /\ (LookupSession(h) /\ ~LookupSession(h)')
               => /\ sess'[h].destroyed # 0
                  /\ \E j \in 1 .. Len(old_sessions') : old_sessions'[j] = h
         /\ (h \in created /\ ~LookupSession(h)) => ~LookupSession(h)']_vars

\* C5 happens: destroy_session has run on a session that was live
C5_Witness ==
    \E h \in Handles :
        /\ h \in created
        /\ sess[h].destroyed # 0
        /\ ~LookupSession(h)
        /\ \E j \in 1 .. Len(old_sessions) : old_sessions[j] = h

\* C6: an accepted process request that changes the remote address or a remote
\* RTP port of a session whose relay thread is running sets `updated` and
\* writes the wake-up pipe
C6_ChangedEndpointSetsUpdated ==
    [][\A h \in Handles :
         (Answers(h, "apply") /\ hmsg.request = "process" /\ lastReply'.code = 0
            /\ Running(h) # {}
            /\ (sess'[h].remote_ip # sess[h].remote_ip
                  \/ sess'[h].remote_rtp_port # sess[h].remote_rtp_port))
         => /\ sess'[h].updated
            /\ sess[h].pipefd > 0 => sess'[h].pipe_pending > 0]_vars

\* C7: a process answer with plain RTP SDP, on a session whose preceding
\* generate offer asked for sdes_mandatory (require_srtp and has_srtp_local
\* set, local ports allocated), is answered with error 450; so a process
\* answer accepted on such a session leaves has_srtp_remote set
C7_PlainAnswerRejected ==
    [][\A h \in Handles :
         (Answers(h, "apply") /\ hmsg.request = "process" /\ hmsg.type = "answer"
            /\ sess[h].require_srtp /\ sess[h].has_srtp_local /\ sess[h].pipefd > 0)
         => /\ PlainSdp(hmsg.sdp) => lastReply'.code = JANUS_NOSIP_ERROR_TOO_STRICT
            /\ lastReply'.code = 0 => sess'[h].has_srtp_remote]_vars

\* C8: a generate answer with srtp = sdes_mandatory on a session without remote
\* crypto is answered with error 450, allocates no ports and leaves the
\* session as it was
C8_MandatoryAnswerNeedsRemote ==
    [][\A h \in Handles :
         (Answers(h, "apply") /\ hmsg.request = "generate" /\ hmsg.type = "answer"
            /\ hmsg.srtp = "sdes_mandatory" /\ ~sess[h].has_srtp_remote)
         => /\ lastReply'.code = JANUS_NOSIP_ERROR_TOO_STRICT
            /\ sess'[h] = sess[h]]_vars

\* C9: a generate answer accepted on a session where the preceding process
\* offer installed remote crypto leaves has_srtp_local set, an outbound
\* context for every negotiated kind and a crypto attribute on every m-line
\* of the SDP it returns
C9_AnswerHasLocalSrtp ==
    [][\A h \in Handles :
         (Answers(h, "apply") /\ hmsg.request = "generate" /\ hmsg.type = "answer"
            /\ sess[h].has_srtp_remote /\ lastReply'.code = 0)
         => /\ sess'[h].has_srtp_local
            /\ \A k \in Kinds : sess'[h].has[k] => sess'[h].srtp_out[k]
            /\ \A j \in 1 .. Len(lastReply'.out) : lastReply'.out[j].ncrypto >= 1]_vars

\* this step answers a generate or process of type answer with success
AnswerCompletes(h) ==
    /\ pushed' = pushed + 1
    /\ lastReply'.handle = h
    /\ lastReply'.code = 0
    /\ lastReply'.event \in {"generated", "processed"}
    /\ lastReply'.type = "answer"

C11_HangupNotTakenBack ==
    [][ \A h \in Handles : \A i \in 1 .. Len(relays[h]) :
          ( /\ relays[h][i].pc = "poll"
            /\ sess[h].hangingup # 0
            /\ sess[h].destroyed = 0 )
          => ~ ( /\ relays'[h][i].pc # "done"
                 /\ sess'[h].hangingup = 0
                 /\ sess'[h].destroyed = 0 ) ]_vars

\* what the relay loop and the ingress shims read of a session without a lock
RelayMedia(m) == << m.rtp_fd, m.rtcp_fd, m.local_rtp_port, m.local_rtcp_port,
                    m.srtp_in, m.srtp_out >>

\* C12: from the spawn of a relay thread to its teardown no other thread
\* changes the session's sockets, local ports or SRTP contexts: a step of the
\* request handler on a session one of whose relay threads has not returned
\* leaves them as they are.
C12_HandlerLeavesRelayMedia ==
    [][ \A h \in Handles :
          ( /\ Running(h) # {}
            /\ hpc \in {"validate", "apply"}
            /\ hmsg.handle = h
            /\ hpc' # hpc )
          => RelayMedia(sess'[h]) = RelayMedia(sess[h]) ]_vars

\* the error codes of the validation stage that the model produces
ValidationErrors ==
    { JANUS_NOSIP_ERROR_INVALID_REQUEST, JANUS_NOSIP_ERROR_MISSING_ELEMENT,
      JANUS_NOSIP_ERROR_INVALID_ELEMENT, JANUS_NOSIP_ERROR_MISSING_SDP,
      JANUS_NOSIP_ERROR_INVALID_SDP, JANUS_NOSIP_ERROR_TOO_STRICT }

\* the negotiated state of a session
NegotiatedState(m) ==
    << m.require_srtp, m.has_srtp_local, m.has_srtp_remote, m.srtp_in, m.srtp_out,
       m.srtp_suite_in, m.srtp_suite_out, m.has, m.remote_ip, m.remote_rtp_port,
       m.remote_rtcp_port, m.send, m.rtp_fd, m.rtcp_fd, m.sdp >>

\* C13: a request answered with one of the validation error codes leaves the
\* session's SRTP flags and contexts, has_audio/has_video, remote address and
\* ports, send gates, sockets and stored SDP as they were.
C13_ValidationErrorKeepsState ==
    [][ \A h \in Handles :
          ( /\ Answers(h, "validate") \/ Answers(h, "apply")
            /\ lastReply'.code \in ValidationErrors )
          => NegotiatedState(sess'[h]) = NegotiatedState(sess[h]) ]_vars

\* the SDP has an audio or a video section with a non-zero port
HasLiveMedia(sdp) ==
    \E i \in 1 .. Len(sdp.m_lines) :
        sdp.m_lines[i].type \in Kinds /\ sdp.m_lines[i].port # 0

\* C14: whatever the session has negotiated before, a process request of type
\* offer whose SDP has no audio or video section with a non-zero port is
\* answered with error 447.
C14_EmptyOfferRejected ==
    [][ \A h \in Handles :
          ( /\ Answers(h, "apply")
            /\ hmsg.request = "process"
            /\ hmsg.type = "offer"
            /\ ~HasLiveMedia(hmsg.sdp) )
          => lastReply'.code = JANUS_NOSIP_ERROR_INVALID_SDP ]_vars

\* a relay thread of h is between two stores of its teardown
InTeardown(h) ==
    \E i \in 1 .. Len(relays[h]) : relays[h][i].pc \in { CutPc[k] : k \in Kinds }

\* C15: in every reachable state, for each kind whose local ports are
\* allocated (non-zero), the local RTP port is even and the local RTCP port is
\* the RTP port plus one.  (States in which a thread has stored one port of a
\* pair and not yet the other are not counted.)
C15_LocalPortsPaired ==
    \A h \in Handles : \A k \in Kinds :
        ( /\ ~InTeardown(h)
          /\ sess[h].local_rtp_port[k] # 0 \/ sess[h].local_rtcp_port[k] # 0 )
        => /\ sess[h].local_rtp_port[k] % 2 = 0
           /\ sess[h].local_rtcp_port[k] = sess[h].local_rtp_port[k] + 1

\* the two-part teardown, run without interruption, is the teardown
TeardownPartsAgree ==
    \A h \in Handles : \A k \in Kinds :
        TeardownRest(TeardownFirst(sess[h], k), k) = RelayTeardown(sess[h])

\* C16: every port bound by janus_nosip_allocate_local_ports, the RTP port
\* after rounding up to even and the RTCP port next to it, lies in
\* [rtp_range_min, rtp_range_max].
C16_PortsInRange ==
    \A h \in Handles : \A k \in Kinds :
        /\ sess[h].local_rtp_port[k] # 0
             => sess[h].local_rtp_port[k] \in rtp_range_min .. rtp_range_max
        /\ sess[h].local_rtcp_port[k] # 0
             => sess[h].local_rtcp_port[k] \in rtp_range_min .. rtp_range_max

AllocReturned == alloc.pc \in {"return_0", "return_attempts", "return_socket"}

\* the call bound a pair for every negotiated kind and returned 0
AllocBoundAll ==
    /\ alloc.pc = "return_0" /\ alloc.ret = 0
    /\ \A k \in Kinds : sess[AllocHandle].has[k] =>
          /\ sess[AllocHandle].local_rtp_port[k] # 0
          /\ sess[AllocHandle].local_rtcp_port[k] # 0
          /\ sess[AllocHandle].rtp_fd[k] # -1
          /\ sess[AllocHandle].rtcp_fd[k] # -1

\* the call returned -1 after MaxAttempts failed binds
AllocExhausted ==
    alloc.pc = "return_attempts" /\ alloc.ret = -1 /\ alloc.attempts = 0

\* C17 as stated: janus_nosip_allocate_local_ports returns, and when it has
\* returned it has either bound an RTP/RTCP pair for every negotiated kind or
\* returned the error after 100 failed bind attempts.
C17_BoundAllOrExhausted ==
    AllocReturned => (AllocBoundAll \/ AllocExhausted)

\* C17 amended: the call always returns; it has then bound a pair for every
\* negotiated kind, or returned -1 after 100 failed bind attempts, or
\* returned -1 at once, after fewer failed binds, because socket() failed.
C17_AllocTerminates ==
    /\ <>AllocReturned
    /\ [](AllocReturned =>
            \/ AllocBoundAll
            \/ AllocExhausted
            \/ /\ alloc.pc = "return_socket" /\ alloc.ret = -1
               /\ alloc.attempts \in 1 .. MaxAttempts
               /\ \/ sess[AllocHandle].rtp_fd[alloc.kind] = -1
                  \/ sess[AllocHandle].rtcp_fd[alloc.kind] = -1)

\* the call has given up on video after audio took some of the 100 attempts
C17_Witness ==
    /\ AllocExhausted
    /\ alloc.kind = "video"
    /\ sess[AllocHandle].local_rtp_port["audio"] # 0

\* C18: when the port allocation of a generate request fails, the reply is
\* error 448 and no socket that the allocation opened for the session, of
\* either kind, is open afterwards.
C18_FailedAllocLeavesNoSocket ==
    [][ \A h \in Handles :
          ( /\ Answers(h, "apply")
            /\ hmsg.request = "generate"
            /\ lastReply'.code # 0 )
          => /\ lastReply'.code = JANUS_NOSIP_ERROR_IO_ERROR
             /\ \A k \in Kinds : sess'[h].rtp_fd[k] = -1 /\ sess'[h].rtcp_fd[k] = -1 ]_vars

\* this step writes a wake-up into the pipe of h (the body of
\* janus_nosip_hangup_media_internal is the one place that does)
WakeWritten(h) == sess'[h].pipe_pending > sess[h].pipe_pending

\* C19: however many times hangup_media and destroy_session run between two
\* resets of hangingup, the body past the atomic add runs exactly once.  At
\* most once: a wake-up is written only by the step that takes hangingup from
\* 0 to 1, and hangingup then stays non-zero up to the next reset.  At least
\* once: a step of a live session that takes hangingup off 0 writes the
\* wake-up whenever there is a pipe with room to take it.
C19_TeardownBodyOnce ==
    [][ \A h \in Handles :
          /\ WakeWritten(h) => sess[h].hangingup = 0 /\ sess'[h].hangingup = 1
          /\ ( /\ sess[h].hangingup = 0 /\ sess'[h].hangingup # 0
               /\ sess[h].pipefd > 0 /\ sess[h].pipe_pending < PipeCap )
             => WakeWritten(h) ]_vars

\* C19 happens: hangup_media has run, its wake-up has been read by the relay
\* thread, which is about to test its loop condition; hangup_media and
\* destroy_session can both run again
C19_Witness ==
    \E h \in Handles : \E i \in 1 .. Len(relays[h]) :
        /\ sess[h].hangingup # 0
        /\ sess[h].destroyed = 0
        /\ h \in sessions
        /\ sess[h].pipefd > 0
        /\ sess[h].pipe_pending = 0
        /\ relays[h][i].pc = "top"
        /\ relays[h][i].pipe_fd = sess[h].pipefd

ReaperSpec == Init /\ [][Next]_vars /\ WF_vars(Watchdog) /\ WF_vars(Tick)

\* C21: the watchdog frees a session only when at least 5 seconds have gone by
\* since its destroyed stamp (and the stamp is set), and every session that is
\* on old_sessions is eventually taken off the list and freed.
C21_FreedAfterGrace ==
    /\ [][\A h \in Handles :
            (h \in freed' /\ h \notin freed) =>
                /\ sess[h].destroyed # 0
                /\ now - sess[h].destroyed >= GraceSeconds
                /\ \E i \in 1 .. Len(old_sessions) : old_sessions[i] = h]_vars
    /\ \A h \in Handles :
            (\E i \in 1 .. Len(old_sessions) : old_sessions[i] = h)
                ~> (h \in freed /\ \A i \in 1 .. Len(old_sessions) : old_sessions[i] # h)

\* a session has been freed, at the first moment the test of line 393 allows
C21_Witness ==
    \E h \in Handles :
        /\ h \in freed
        /\ old_sessions = << >>
        /\ now - sess[h].destroyed = GraceSeconds

\* ------------------------------------------------------ the generated offer
\* the handler finishes a generate offer of session h with "generated"
GeneratesOffer(h) ==
    /\ hpc = "apply" /\ hmsg.handle = h
    /\ hmsg.request = "generate" /\ hmsg.type = "offer"
    /\ pushed' = pushed + 1
    /\ lastReply'.code = 0 /\ lastReply'.event = "generated"

\* C22: in the SDP returned for a successful generate offer every audio and
\* video m-line has proto RTP/SAVP exactly when the request said
\* sdes_mandatory (RTP/AVP otherwise), has the session's local RTP port of
\* its kind, and has exactly one crypto attribute when the request had an
\* srtp element, none otherwise.
C22_OfferSdpAsRequested ==
    [][\A h \in Handles : GeneratesOffer(h) =>
          \A i \in 1 .. Len(lastReply'.out) :
              LET o == lastReply'.out[i]
              IN o.type \in Kinds =>
                    /\ o.proto = IF hmsg.srtp = "sdes_mandatory"
                                 THEN "RTP/SAVP" ELSE "RTP/AVP"
                    /\ o.port = sess'[h].local_rtp_port[o.type]
                    /\ o.ncrypto = IF hmsg.srtp = "absent" THEN 0 ELSE 1]_vars

\* ------------------------------------------------------------ the packets
\* C23: a packet from the peer for which srtp_unprotect / srtp_unprotect_rtcp
\* returns replay_fail or replay_old is dropped: the relay loop does not hand
\* it to gateway->relay_rtp / relay_rtcp and reads no recorder for it.
C23_ReplayDropped ==
    [][(InHand(pkt) /\ pkt.src = "relay" /\ ~InHand(pkt')
            /\ pkt.res \in {"replay_fail", "replay_old"})
          => (pkt'.out = "dropped" /\ pkt.rec = "none")]_vars

\* ------------------------------------------------------- the socket errors
\* the relay thread acts on the socket error it has in hand
ActsOnError(h) ==
    /\ pkt.src = "pollerr" /\ InHand(pkt) /\ ~InHand(pkt')
    /\ \E i \in 1 .. Len(relays[h]) : relays[h][i].pc = "pollerr"
\* the thread that had the error in hand has left its loop
LeftLoop(h) ==
    \E i \in 1 .. Len(relays[h]) :
        relays[h][i].pc = "pollerr" /\ relays'[h][i].pc = "done"

\* C24 as stated: a non-zero SO_ERROR that is not ECONNREFUSED on an RTCP
\* socket (so ECONNREFUSED on an RTP socket too), met while `updated` is
\* false, ends the session: gateway->close_pc is called and the loop is left.
C24_ErrorIsFatal ==
    [][\A h \in Handles :
          (ActsOnError(h) /\ ~sess[h].updated
                /\ ~(pkt.res = "refused" /\ pkt.rtcp))
            => (pkt'.out = "close_pc" /\ LeftLoop(h))]_vars

\* C24, amended: an SO_ERROR other than zero and ECONNREFUSED, on any socket
\* and with `updated` false, ends the session (close_pc, loop left);
\* ECONNREFUSED on an RTP socket is passed over: nothing is closed, close_pc is
\* not called and the thread goes back to the top of its loop.
C24_OtherErrorIsFatal ==
    [][\A h \in Handles :
          (ActsOnError(h) /\ ~sess[h].updated) =>
             /\ pkt.res = "other" => (pkt'.out = "close_pc" /\ LeftLoop(h))
             /\ (pkt.res = "refused" /\ ~pkt.rtcp) =>
                   /\ pkt'.out = "passed"
                   /\ ~LeftLoop(h)
                   /\ sess' = sess]_vars

\* a relay thread has met a fatal socket error: close_pc, the loop left and
\* the teardown done
C24_Witness ==
    \E h \in Handles :
        /\ pkt.out = "close_pc"
        /\ \E i \in 1 .. Len(relays[h]) : relays[h][i].pc = "done"
        /\ sess[h].rtp_fd = AllKinds(-1)
        /\ ~sess[h].updated

\* "Prepare poll": the descriptors the next poll waits on, read from the
\* session (the pipe from the thread's own pipe_fd)
PollSet(m, t) ==
    { << "rtp", k >> : k \in { x \in Kinds : m.rtp_fd[x] # -1 } }
        \cup { << "rtcp", k >> : k \in { x \in Kinds : m.rtcp_fd[x] # -1 } }
        \cup (IF t.pipe_fd # -1 THEN { << "pipe", "pipe" >> } ELSE {})

\* C25: on ECONNREFUSED on an RTCP socket the relay loop closes that RTCP
\* descriptor and nothing else: every other field of the session (the other
\* three sockets, the pipe) is as before, close_pc is not called, the thread
\* is back at the top of its loop, and the descriptors of its next poll are
\* those of before without the closed one.
C25_RefusedRtcpClosesOnlyIt ==
    [][\A h \in Handles :
          (ActsOnError(h) /\ ~sess[h].updated /\ pkt.res = "refused" /\ pkt.rtcp) =>
             /\ sess'[h] = [sess[h] EXCEPT !.rtcp_fd[pkt.kind] = -1]
             /\ pkt'.out = "closed"
             /\ \A i \in 1 .. Len(relays[h]) :
                   relays[h][i].pc = "pollerr" =>
                      /\ relays'[h][i] = [relays[h][i] EXCEPT !.pc = "top"]
                      /\ PollSet(sess'[h], relays'[h][i])
                            = PollSet(sess[h], relays[h][i]) \ {<< "rtcp", pkt.kind >>}]_vars

\* the RTCP socket of a kind has been closed on ECONNREFUSED: its RTP socket
\* and the pipe are open and the thread is in its loop
C25_Witness ==
    \E h \in Handles, k \in Kinds :
        /\ pkt.out = "closed"
        /\ sess[h].rtcp_fd[k] = -1 /\ sess[h].rtp_fd[k] # -1
        /\ sess[h].pipefd > 0
        /\ \E i \in 1 .. Len(relays[h]) :
              relays[h][i].pc = "top" /\ relays[h][i].pipe_fd = sess[h].pipefd

C27_FreedWithDescriptorsClosed ==
    [][\A h \in Handles :
          (h \in freed' /\ h \notin freed)
            => /\ \A k \in Kinds : sess[h].rtp_fd[k] = -1 /\ sess[h].rtcp_fd[k] = -1
               /\ sess[h].pipefd = -1]_vars

\* ------------------------------------------------------------ the teardown
\* the media fields as the code after the relay loop writes them
TornDown(m) ==
    /\ \A k \in Kinds :
         /\ m.rtp_fd[k] = -1 /\ m.rtcp_fd[k] = -1
         /\ m.local_rtp_port[k] = 0 /\ m.local_rtcp_port[k] = 0
         /\ ~m.srtp_in[k] /\ ~m.srtp_out[k]
         /\ m.srtp_suite_in[k] = 0 /\ m.srtp_suite_out[k] = 0
    /\ m.pipefd = -1
    /\ ~m.require_srtp /\ ~m.has_srtp_local /\ ~m.has_srtp_remote

\* C28: when a relay thread leaves its loop and returns, on a session that is
\* not freed, the session's four sockets and its pipe are closed, its local
\* ports are zero, and its SRTP contexts and flags are cleared.
C28_ExitLeavesTornDown ==
    [][\A h \in Handles : \A i \in 1 .. Len(relays[h]) :
          (relays[h][i].pc \notin {"start", "done"} /\ relays'[h][i].pc = "done"
                /\ h \notin freed)
            => TornDown(sess'[h])]_vars

\* ------------------------------------------------------- the SRTP contexts
\* a relay thread has taken a packet off a socket and, has_srtp_remote being
\* set, hands it to srtp_unprotect / srtp_unprotect_rtcp
RelayUnprotects == ~InHand(pkt) /\ InHand(pkt') /\ pkt'.src = "relay" /\ pkt'.ctx # "none"
\* a callback, has_srtp_local being set, hands its packet to srtp_protect /
\* srtp_protect_rtcp
ShimProtects(h) ==
    InHand(pkt) /\ pkt.src = "shim" /\ ~InHand(pkt') /\ sess[h].has_srtp_local

\* C29: the context handed to srtp_unprotect by the relay loop, and the one
\* handed to srtp_protect by a callback, for a packet of kind k is never NULL.
C29_SrtpContextExists ==
    [][/\ RelayUnprotects => pkt'.ctx = "set"
       /\ \A h \in Handles : ShimProtects(h) => sess[h].srtp_out[pkt.kind]]_vars

\* ------------------------------------------------------------ the recorders
\* the relay loop or a callback is done with the RTP packet it had in hand:
\* janus_recorder_save_frame has run with the recorder pointer it read
SavesFrame == InHand(pkt) /\ ~InHand(pkt') /\ pkt.src \in {"relay", "shim"} /\ ~pkt.rtcp

\* C30: the recorder that the relay loop or a callback passes to
\* janus_recorder_save_frame has not been closed and freed meanwhile by a
\* recording stop request or by a hangup.
C30_NoFreedRecorderSaved == [][SavesFrame => pkt.rec # "freed"]_vars

\* --------------------------------------------------------------- rec_mutex
\* C31: a session's recorder pointers are written only by a context that
\* holds the session's rec_mutex, and no two contexts hold it at once.
C31_RecordersWrittenUnderMutex ==
    [][\A h \in Handles :
          /\ Cardinality(Holders(h)') <= 1
          /\ recorders'[h] # recorders[h] => Cardinality(Holders(h)) = 1]_vars
\* the handler holds rec_mutex with a recorder open while a hangup waits in
\* janus_mutex_lock
C31_Witness ==
    \E h \in Handles :
        /\ rec_mutex[h] = [c \in RecContexts |-> IF c = "handler" THEN "holds" ELSE "waits"]
        /\ \E s \in RecorderSlots : recorders[h][s] = "open"

\* ------------------------------------------------------- the outbound gate
\* janus_nosip_incoming_rtp has sent its packet to the peer
ShimSendsRtp == InHand(pkt) /\ pkt.src = "shim" /\ ~pkt.rtcp /\ pkt'.out = "relayed"

\* C32: janus_nosip_incoming_rtp sends a packet of kind k only while send_k is
\* true, the session is not destroyed, kind k is negotiated and its RTP socket
\* is open.
C32_SendsOnlyThroughGate ==
    [][\A h \in Handles :
          ShimSendsRtp
            => /\ sess[h].send[pkt.kind]
               /\ sess[h].destroyed = 0
               /\ sess[h].has[pkt.kind]
               /\ sess[h].rtp_fd[pkt.kind] # -1]_vars

\* ------------------------------------------------------------ the wake pipe
\* C33: the pipe descriptor a running relay loop polls is the read end of the
\* session's current pipe.
C33_LoopPollsCurrentPipe ==
    \A h \in Handles \ freed : \A i \in 1 .. Len(relays[h]) :
        relays[h][i].pc \in {"top", "poll"} => relays[h][i].pipe_fd = sess[h].pipefd

\* ------------------------------------------------- SRTP contexts and flags
\* C34: for each kind, an outbound context exists only with has_srtp_local
\* set and an inbound context only with has_srtp_remote set, in every state
\* in which no thread is inside janus_nosip_sdp_manipulate.
C34_ContextImpliesFlag ==
    \A h \in Handles \ freed : \A k \in Kinds :
      hpc # "manipulate" =>
        /\ sess[h].srtp_out[k] => sess[h].has_srtp_local
        /\ sess[h].srtp_in[k] => sess[h].has_srtp_remote

\* ------------------------------------------------- the map and the old list
OnOldList(h) == { j \in 1 .. Len(old_sessions) : old_sessions[j] = h }

\* C35: a session is never in the hash table and on old_sessions at once, is
\* on old_sessions at most once, and once freed is not on old_sessions again,
\* so that the watchdog frees it at most once.
C35_DestroyedOnceFreedOnce ==
    [][\A h \in Handles :
          /\ ~(LookupSession(h) /\ OnOldList(h) # {})
          /\ Cardinality(OnOldList(h)) <= 1
          /\ h \in freed => (OnOldList(h) = {} /\ h \in freed' /\ OnOldList(h)' = {})
          /\ (h \in freed' /\ h \notin freed) => (OnOldList(h) # {} /\ OnOldList(h)' = {})]_vars
\* a session that had a relay thread went through destroy_session and the
\* watchdog
C35_Witness ==
    \E h \in Handles :
        /\ h \in freed /\ ~LookupSession(h) /\ OnOldList(h) = {}
        /\ sess[h].destroyed # 0 /\ relays[h] # << >>

\* ------------------------------------------------------ media at the spawn
\* the handler starts a relay thread for h (g_thread_try_new)
Spawns(h) == Len(relays'[h]) > Len(relays[h])

\* C36: when a relay thread is started for a session, the session's pipe
\* exists and the RTP and RTCP sockets of every negotiated kind are open.
C36_SpawnedWithMedia ==
    [][\A h \in Handles :
          Spawns(h)
            => /\ sess'[h].pipefd # -1
               /\ \A k \in Kinds :
                    sess'[h].has[k]
                      => (sess'[h].rtp_fd[k] # -1 /\ sess'[h].rtcp_fd[k] # -1)]_vars

\* ------------------------------------------------- the negotiated-kind flags
\* the SDP has a section of kind k with a non-zero port
HasLiveKind(sdp, k) ==
    \E i \in 1 .. Len(sdp.m_lines) :
        sdp.m_lines[i].type = k /\ sdp.m_lines[i].port # 0

\* C37: after a generate or process request answered with success, has_audio
\* (has_video) is true exactly when the SDP of that request has an audio
\* (video) section with a non-zero port.
C37_FlagsFollowRequestSdp ==
    [][ \A h \in Handles :
          ( /\ Answers(h, "apply")
            /\ lastReply'.code = 0
            /\ lastReply'.event \in {"generated", "processed"} )
          => \A k \in Kinds : sess'[h].has[k] <=> HasLiveKind(hmsg.sdp, k) ]_vars

\* ------------------------------------------------------- requests discarded
\* the handler pops the head of the queue (g_async_queue_pop)
Dequeues == hpc = "idle" /\ messages # << >> /\ messages' = Tail(messages)

\* the popped message has no session in the table, or a destroyed one
NoLiveSession(msg) ==
    ~LookupSession(msg.handle) \/ sess[msg.handle].destroyed # 0

\* C38: a request popped while its handle has no session in the table, or a
\* destroyed one, is discarded: nothing is pushed, no session and no recorder
\* changes, and the handler goes back to the queue without taking it up.
C38_DiscardedRequestSilent ==
    [][ (Dequeues /\ NoLiveSession(Head(messages)))
          => /\ pushed' = pushed
             /\ sess' = sess
             /\ recorders' = recorders
             /\ relays' = relays
             /\ hpc' = "idle"
             /\ hmsg' = hmsg ]_vars

\* every request was popped and none was taken up or answered
C38_Witness ==
    /\ messages = << >>
    /\ nextTx = MaxRequests + 1
    /\ hpc = "idle"
    /\ pushed = 0
    /\ ~uaf
    /\ \E h \in Handles : ~LookupSession(h) /\ sess[h].destroyed # 0

\* --------------------------------------------------- the cleanup, on its own
\* janus_nosip_srtp_cleanup applied twice in a row to one session, for every
\* combination of the SRTP fields, the ones no request sequence leaves behind
\* included, over a session without media and one with audio and video
\* allocated.
CleanupHandle == CHOOSE h \in Handles : TRUE

CleanupSuites == {0, 32, SuiteOut}

CleanupSessions ==
    { [b EXCEPT !.require_srtp = f[1], !.has_srtp_local = f[2],
                !.has_srtp_remote = f[3],
                !.srtp_out = co, !.srtp_in = ci,
                !.srtp_suite_out = so, !.srtp_suite_in = si] :
        b \in { a \in AllocSessions : a.has["audio"] = a.has["video"] },
        f \in [1 .. 3 -> BOOLEAN],
        co \in [Kinds -> BOOLEAN], ci \in [Kinds -> BOOLEAN],
        so \in [Kinds -> {0, SuiteOut}], si \in [Kinds -> CleanupSuites] }

CleanupInit ==
    /\ created = {CleanupHandle}
    /\ sessions = {CleanupHandle}
    /\ old_sessions = << >>
    /\ freed = {}
    /\ sess \in [Handles -> CleanupSessions]
    /\ messages = << >>
    /\ nextTx = 1
    /\ hpc = "cleanup"
    /\ hmsg = [NoMsg EXCEPT !.handle = CleanupHandle]
    /\ relays = [h \in Handles |-> << >>]
    /\ now = 1
    /\ pushed = 0
    /\ lastReply = NoReply
    /\ uaf = FALSE
    /\ alloc = NoAlloc
    /\ pkt = NoPkt
    /\ recorders = [h \in Handles |-> NoRecorders]
    /\ rec_mutex = [h \in Handles |-> NoContexts]

CleanupFrame == << rec_mutex, alloc, pkt, recorders, created, sessions, old_sessions, freed,
                   messages, nextTx, hmsg, relays, now, pushed, lastReply, uaf >>

\* the first call
SrtpCleanupCall ==
    /\ hpc = "cleanup"
    /\ sess' = [sess EXCEPT ![hmsg.handle] = SrtpCleanup(@)]
    /\ hpc' = "cleaned"
    /\ UNCHANGED CleanupFrame

\* the second call, on what the first one left
SrtpCleanupAgain ==
    /\ hpc = "cleaned"
    /\ sess' = [sess EXCEPT ![hmsg.handle] = SrtpCleanup(@)]
    /\ hpc' = "idle"
    /\ UNCHANGED CleanupFrame

CleanupNext == SrtpCleanupCall \/ SrtpCleanupAgain

CleanupSpec == CleanupInit /\ [][CleanupNext]_vars

\* no SRTP context, flag or suite is left in m
NoSrtpLeft(m) ==
    /\ ~m.require_srtp /\ ~m.has_srtp_local /\ ~m.has_srtp_remote
    /\ \A k \in Kinds :
         /\ ~m.srtp_out[k] /\ ~m.srtp_in[k]
         /\ m.srtp_suite_out[k] = 0 /\ m.srtp_suite_in[k] = 0

\* C39: janus_nosip_srtp_cleanup, applied to a session in any SRTP state,
\* leaves no context (and key), require_srtp, has_srtp_local and
\* has_srtp_remote false and every suite field 0; applied a second time it
\* changes nothing.
C39_CleanupTotalIdempotent ==
    [][ /\ (hpc = "cleanup" /\ hpc' = "cleaned")
           => NoSrtpLeft(sess'[hmsg.handle])
        /\ (hpc = "cleaned" /\ hpc' = "idle")
           => (NoSrtpLeft(sess'[hmsg.handle]) /\ sess' = sess) ]_vars

\* the second call has returned on a session with media allocated
C39_Witness ==
    /\ hpc = "idle"
    /\ hmsg.handle = CleanupHandle
    /\ NoSrtpLeft(sess[CleanupHandle])
    /\ sess[CleanupHandle].has["video"]
    /\ sess[CleanupHandle].rtp_fd["video"] # -1

\* --------------------------------------------------- the outbound suite field
\* the SDP has a media line of kind k
HasMediaLine(sdp, k) ==
    \E i \in 1 .. Len(sdp.m_lines) : sdp.m_lines[i].type = k

\* C40: after a generate request whose SDP janus_nosip_sdp_manipulate rewrote
\* with has_srtp_local true, srtp_suite_out is 80 for every kind that has a
\* media line in that SDP.
C40_SuiteOutSetPerKind ==
    [][ \A h \in Handles :
          ( /\ Answers(h, "apply")
            /\ hmsg.request = "generate"
            /\ lastReply'.code = 0
            /\ lastReply'.event = "generated"
            /\ sess'[h].has_srtp_local )
          => \A k \in Kinds :
               HasMediaLine(hmsg.sdp, k) => sess'[h].srtp_suite_out[k] = SuiteOut ]_vars

============================================================================
